---- MODULE Spec2Model ----
(***************************************************************************)
(* Booking service: reservation, table and user write handlers, the        *)
(* PostgreSQL record store they write and the Redis cache they invalidate. *)
(* Every store call and every cache call of a handler is one step, so that *)
(* requests can interleave at the granularity the server allows.           *)
(***************************************************************************)
EXTENDS Integers, Sequences, FiniteSets, TLC

VARIABLES reservations, nextId, tables, users, cache, proc,
          now, tokenCache, loggedOut

\* the clock, the token keys of the cache and the tokens whose logout has
\* been answered with success
auth == <<now, tokenCache, loggedOut>>

vars == <<reservations, nextId, tables, users, cache, proc, auth>>

\* ---------------------------------------------------------------- bounds
\* number of reservation ids uuid.New() hands out in one run
MaxReservations == 2

\* the last instant of the clock
MaxTime == 5

\* The clock counts half seconds; a JWT NumericDate counts whole seconds.
TicksPerSecond == 2

\* jwtConfig.AccessTokenLifetime, in clock ticks
AccessTokenLifetime == 2
MaxCompleted == 3
WideTables == 11
PopularLimit == 10

\* ------------------------------------------------------- values and text
\* A Go string is a sequence of one-character strings.
T1 == <<"T", "1">>
T2 == <<"T", "2">>
T3 == <<"T", "3">>
Ann == <<"A">>
Bob == <<"B">>

RECURSIVE TrimLeft(_)
TrimLeft(s) == IF s # <<>> /\ Head(s) = " " THEN TrimLeft(Tail(s)) ELSE s

RECURSIVE TrimRight(_)
TrimRight(s) ==
    IF s # <<>> /\ s[Len(s)] = " " THEN TrimRight(SubSeq(s, 1, Len(s) - 1)) ELSE s

\* strings.TrimSpace
TrimSpace(s) == TrimRight(TrimLeft(s))

\* A date text "YYYY-MM-DD" is the triple of the numbers written in it.
IsLeap(y) == (y % 4 = 0 /\ y % 100 # 0) \/ y % 400 = 0

DaysIn(y, m) ==
    IF m = 2 THEN (IF IsLeap(y) THEN 29 ELSE 28)
    ELSE IF m \in {4, 6, 9, 11} THEN 30 ELSE 31

\* time.Parse("2006-01-02", s) succeeds
IsValidDate(s) == s[2] \in 1..12 /\ s[3] \in 1..DaysIn(s[1], s[2])

\* the DATE value of a valid date text: days are ordered as y, m, d
DateValue(s) == (s[1] * 12 + (s[2] - 1)) * 31 + (s[3] - 1)

\* A time text is the hour and minute written in it; pad tells whether the
\* hour is written with two digits ("09:00") or one ("9:00").
\* time.Parse("15:04", s) succeeds
IsValidTime(s) == s.h \in 0..23 /\ s.m \in 0..59

\* the TIME value of a valid time text: minutes after midnight
TimeValue(s) == s.h * 60 + s.m

ActiveStatuses == {"pending", "confirmed"}
validStatuses == {"pending", "confirmed", "cancelled", "completed"}

\* ------------------------------------------------------------ principals
adminRole == "admin"
Users == {"u1", "u2", "admin"}
Procs == {"p1", "p2"}

NoRes == [id |-> 0]
NoTbl == [id |-> "none"]
NoUsr == [id |-> "none"]

\* an optional (pointer) field of a request body: {} is nil, {v} is set
Nil == {}
Val(x) == CHOOSE v \in x : TRUE

\* ------------------------------------------------------------ cache keys
\* A key is the sequence of its ':'-separated segments.
ReservationKey(id) == <<"reservation", id>>
UserReservationsKey(u) == <<"reservations", "user", u>>

\* ------------------------------------------------------------ the store
TableNumbers(ts) == {t.number : t \in ts}

\* ReservationQ.CheckTableAvailability: COUNT(*) of the rows on the slot
\* whose status is pending or confirmed
\* the count with the status filter narrowed to confirmed
CheckTableAvailabilityCount_ConfirmedOnly(rs, tableNumber, date, time) ==
    Cardinality({r \in rs : /\ r.table_number = tableNumber
                            /\ r.date = date
                            /\ r.time = time
                            /\ r.status \in {"confirmed"}})

\* (date and time are the values of the $2::date and $3::time casts)
CheckTableAvailabilityCount(rs, tableNumber, date, time) ==
    Cardinality({r \in rs : /\ r.table_number = tableNumber
                            /\ r.date = date
                            /\ r.time = time
                            /\ r.status \in {"pending", "confirmed"}})

\* the check with the time of day left out of the comparison
CheckTableAvailability_AnyTime(rs, tableNumber, date, time, fail) ==
    IF fail \/ ~IsValidDate(date) \/ ~IsValidTime(time)
    THEN [err |-> TRUE, available |-> FALSE]
    ELSE [err |-> FALSE,
          available |-> ~(\E r \in rs : /\ r.table_number = tableNumber
                                        /\ r.date = DateValue(date)
                                        /\ r.status \in {"pending", "confirmed"})]

\* the check reporting a failed query as "not available"
CheckTableAvailability_ErrorAsTaken(rs, tableNumber, date, time, fail) ==
    IF fail \/ ~IsValidDate(date) \/ ~IsValidTime(time)
    THEN [err |-> FALSE, available |-> FALSE]
    ELSE [err |-> FALSE,
          available |-> CheckTableAvailabilityCount(rs, tableNumber,
                            DateValue(date), TimeValue(time)) = 0]

CheckTableAvailability(rs, tableNumber, date, time, fail) ==
    IF fail \/ ~IsValidDate(date) \/ ~IsValidTime(time)
    THEN [err |-> TRUE, available |-> FALSE]
    ELSE [err |-> FALSE,
          available |-> CheckTableAvailabilityCount(rs, tableNumber,
                            DateValue(date), TimeValue(time)) = 0]

\* ReservationQ.Create: the INSERT of one row
Create(rs, row) == rs \cup {row}

\* ReservationQ.Delete: DELETE WHERE id
Delete(rs, id) == {r \in rs : r.id # id}

\* ReservationQ.GetByID: the row, or an error when there is none
GetByID(rs, id, fail) ==
    IF fail \/ ~(\E r \in rs : r.id = id)
    THEN [err |-> TRUE, row |-> NoRes]
    ELSE [err |-> FALSE, row |-> CHOOSE r \in rs : r.id = id]

\* ------------------------------------------------------------- requests
\* TableAvailabilityFilters with no field set
NoFilters == [date |-> {}, time |-> {}, guests |-> {}]

Idle ==
    [pc |-> "idle", op |-> "none", user |-> "none", res |-> NoRes,
     status |-> "none", tbl |-> NoTbl, usr |-> NoUsr,
     writeOk |-> FALSE, fault |-> FALSE, issued |-> {},
     code |-> 0, details |-> {}, token |-> <<>>, body |-> {},
     filters |-> NoFilters]

Respond(q, code, details) ==
    [q EXCEPT !.pc = "done", !.code = code, !.details = details]

\* writeErrorResponse(w, 500, ...) after a store call returned an error
InternalError(q, fail) ==
    [q EXCEPT !.pc = "done", !.code = 500, !.details = {},
              !.fault = q.fault \/ fail]

InFlightInserts == Cardinality({q \in Procs : proc[q].pc = "insert"})

\* ---------------------------------------------- POST /reservations
\* validation of the request body, after TrimSpace
CreateValidationErrors(req) ==
    (IF TrimSpace(req.guestName) = <<>> THEN {"guestName"} ELSE {})
    \cup (IF ~IsValidDate(req.date) THEN {"date"} ELSE {})
    \cup (IF ~IsValidTime(req.time) THEN {"time"} ELSE {})
    \cup (IF TrimSpace(req.tableNumber) = <<>> THEN {"tableNumber"} ELSE {})

\* handleCreateReservation up to and including the availability check
CreateReservationCheck(p, u, req, fail) ==
    /\ proc[p].pc = "idle"
    /\ nextId + InFlightInserts <= MaxReservations
    /\ LET q == [Idle EXCEPT !.op = "create", !.user = u]
           errs == CreateValidationErrors(req)
           tn == TrimSpace(req.tableNumber)
           av == CheckTableAvailability(reservations, tn, req.date, req.time, fail)
           new == [id |-> 0, user_id |-> u,
                   guest_name |-> TrimSpace(req.guestName),
                   date |-> DateValue(req.date), time |-> TimeValue(req.time),
                   table_number |-> tn, status |-> "pending"]
       IN proc' = [proc EXCEPT ![p] =
            IF errs # {} THEN Respond(q, 400, errs)
            ELSE IF av.err THEN InternalError([q EXCEPT !.res = new], fail)
            ELSE IF ~av.available
                 THEN Respond([q EXCEPT !.res = new], 400, {"tableNumber"})
            ELSE [q EXCEPT !.pc = "insert", !.res = new]]
    /\ UNCHANGED <<reservations, nextId, tables, users, cache, auth>>

\* ReservationQ.Create: the INSERT; the foreign key on table_number makes it
\* fail for a number no table has
CreateReservationInsert(p, fail) ==
    /\ proc[p].pc = "insert"
    /\ LET q == proc[p]
           row == [q.res EXCEPT !.id = nextId]
       IN IF fail \/ row.table_number \notin TableNumbers(tables)
          THEN /\ proc' = [proc EXCEPT ![p] = InternalError(q, fail)]
               /\ UNCHANGED <<reservations, nextId>>
          ELSE /\ reservations' = Create(reservations, row)
               /\ nextId' = nextId + 1
               /\ proc' = [proc EXCEPT ![p] =
                     [q EXCEPT !.pc = "inval_user", !.res = row, !.writeOk = TRUE]]
    /\ UNCHANGED <<tables, users, cache, auth>>

\* ReservationCache.InvalidateUserReservations, then the response
InvalidateUserReservations(p, cfail) ==
    /\ proc[p].pc = "inval_user"
    /\ LET q == proc[p]
           owner == IF q.op = "create" THEN q.user ELSE q.res.user_id
           key == UserReservationsKey(owner)
       IN /\ cache' = IF cfail THEN cache ELSE cache \ {key}
          /\ proc' = [proc EXCEPT ![p] =
                Respond([q EXCEPT !.issued = q.issued \cup {key}],
                        IF q.op = "create" THEN 201 ELSE 200, {})]
    /\ UNCHANGED <<reservations, nextId, tables, users, auth>>

\* ReservationCache.DeleteReservation
DeleteReservationKey(p, cfail) ==
    /\ proc[p].pc = "inval_res"
    /\ LET q == proc[p]
           key == ReservationKey(q.res.id)
       IN /\ cache' = IF cfail THEN cache ELSE cache \ {key}
          /\ proc' = [proc EXCEPT ![p] =
                [q EXCEPT !.pc = "inval_user", !.issued = q.issued \cup {key}]]
    /\ UNCHANGED <<reservations, nextId, tables, users, auth>>

\* ---------------------------------------------- PATCH /reservations/{id}
\* user.Role != adminRole && reservation.UserID != user.ID
Forbidden(u, row) == users[u].role # adminRole /\ row.user_id # u

\* the fields of the request applied to the copy read from the store
ApplyUpdate(row, req) ==
    [row EXCEPT
       !.guest_name = IF req.guestName # Nil /\ TrimSpace(Val(req.guestName)) # <<>>
                      THEN TrimSpace(Val(req.guestName)) ELSE @,
       !.date = IF req.date # Nil /\ IsValidDate(Val(req.date))
                THEN DateValue(Val(req.date)) ELSE @,
       !.time = IF req.time # Nil /\ IsValidTime(Val(req.time))
                THEN TimeValue(Val(req.time)) ELSE @,
       !.table_number = IF req.tableNumber # Nil
                        THEN TrimSpace(Val(req.tableNumber)) ELSE @]

UpdateValidationErrors(req) ==
    (IF req.guestName # Nil /\ TrimSpace(Val(req.guestName)) = <<>>
     THEN {"guestName"} ELSE {})
    \cup (IF req.date # Nil /\ ~IsValidDate(Val(req.date)) THEN {"date"} ELSE {})
    \cup (IF req.time # Nil /\ ~IsValidTime(Val(req.time)) THEN {"time"} ELSE {})

HasUpdates(req) ==
    \/ req.guestName # Nil /\ TrimSpace(Val(req.guestName)) # <<>>
    \/ req.date # Nil /\ IsValidDate(Val(req.date))
    \/ req.time # Nil /\ IsValidTime(Val(req.time))
    \/ req.tableNumber # Nil

\* handleUpdateReservation up to the store write
UpdateReservationLoad(p, u, id, req, fail) ==
    /\ proc[p].pc = "idle"
    /\ LET q == [Idle EXCEPT !.op = "update", !.user = u]
           got == GetByID(reservations, id, fail)
           errs == UpdateValidationErrors(req)
           local == ApplyUpdate(got.row, req)
       IN proc' = [proc EXCEPT ![p] =
            IF got.err THEN InternalError(q, fail)
            ELSE IF Forbidden(u, got.row) THEN Respond(q, 403, {})
            ELSE IF errs # {} THEN Respond(q, 400, errs)
            ELSE IF ~HasUpdates(req) THEN Respond([q EXCEPT !.res = local], 200, {})
            ELSE [q EXCEPT !.pc = "update", !.res = local]]
    /\ UNCHANGED <<reservations, nextId, tables, users, cache, auth>>

\* ReservationQ.Update: SET of every non-empty field of the copy, WHERE id
Update(rs, id, local) ==
    {IF r.id = id
     THEN [r EXCEPT !.guest_name = IF local.guest_name # <<>> THEN local.guest_name ELSE @,
                    !.date = local.date,
                    !.time = local.time,
                    !.table_number = IF local.table_number # <<>>
                                     THEN local.table_number ELSE @]
     ELSE r : r \in rs}

UpdateReservationWrite(p, fail) ==
    /\ proc[p].pc = "update"
    /\ LET q == proc[p]
           found == \E r \in reservations : r.id = q.res.id
           fkOk == q.res.table_number = <<>>
                   \/ q.res.table_number \in TableNumbers(tables)
       IN IF fail \/ ~found \/ ~fkOk
          THEN /\ proc' = [proc EXCEPT ![p] = InternalError(q, fail)]
               /\ UNCHANGED reservations
          ELSE /\ reservations' = Update(reservations, q.res.id, q.res)
               /\ proc' = [proc EXCEPT ![p] =
                     [q EXCEPT !.pc = "inval_res", !.writeOk = TRUE]]
    /\ UNCHANGED <<nextId, tables, users, cache, auth>>

\* --------------------------------------- PATCH /reservations/{id}/status
\* handleUpdateReservationStatus up to the store write
UpdateStatusLoad(p, u, id, status, fail) ==
    /\ proc[p].pc = "idle"
    /\ LET q == [Idle EXCEPT !.op = "status", !.user = u]
           got == GetByID(reservations, id, fail)
       IN proc' = [proc EXCEPT ![p] =
            IF got.err THEN InternalError(q, fail)
            ELSE IF status \notin validStatuses
                 THEN Respond([q EXCEPT !.res = got.row], 400, {"status"})
            ELSE [q EXCEPT !.pc = "status_write", !.res = got.row, !.status = status]]
    /\ UNCHANGED <<reservations, nextId, tables, users, cache, auth>>

\* ReservationQ.UpdateStatus: SET status WHERE id
UpdateStatus(rs, id, status) ==
    {IF r.id = id THEN [r EXCEPT !.status = status] ELSE r : r \in rs}

UpdateStatusWrite(p, fail) ==
    /\ proc[p].pc = "status_write"
    /\ LET q == proc[p]
           found == \E r \in reservations : r.id = q.res.id
       IN IF fail \/ ~found
          THEN /\ proc' = [proc EXCEPT ![p] = InternalError(q, fail)]
               /\ UNCHANGED reservations
          ELSE /\ reservations' = UpdateStatus(reservations, q.res.id, q.status)
               /\ proc' = [proc EXCEPT ![p] =
                     [q EXCEPT !.pc = "status_reread", !.writeOk = TRUE]]
    /\ UNCHANGED <<nextId, tables, users, cache, auth>>

\* the second GetByID of handleUpdateReservationStatus
UpdateStatusReread(p, fail) ==
    /\ proc[p].pc = "status_reread"
    /\ LET q == proc[p]
           got == GetByID(reservations, q.res.id, fail)
       IN proc' = [proc EXCEPT ![p] =
            IF got.err THEN InternalError(q, fail)
            ELSE [q EXCEPT !.pc = "inval_res", !.res = got.row]]
    /\ UNCHANGED <<reservations, nextId, tables, users, cache, auth>>

\* --------------------------------------------- DELETE /reservations/{id}
DeleteReservationLoad(p, u, id, fail) ==
    /\ proc[p].pc = "idle"
    /\ LET q == [Idle EXCEPT !.op = "delete", !.user = u]
           got == GetByID(reservations, id, fail)
       IN proc' = [proc EXCEPT ![p] =
            IF got.err THEN InternalError(q, fail)
            ELSE IF Forbidden(u, got.row) THEN Respond(q, 403, {})
            ELSE [q EXCEPT !.pc = "delete", !.res = got.row]]
    /\ UNCHANGED <<reservations, nextId, tables, users, cache, auth>>

\* ReservationQ.Delete
DeleteReservationWrite(p, fail) ==
    /\ proc[p].pc = "delete"
    /\ LET q == proc[p]
           found == \E r \in reservations : r.id = q.res.id
       IN IF fail \/ ~found
          THEN /\ proc' = [proc EXCEPT ![p] = InternalError(q, fail)]
               /\ UNCHANGED reservations
          ELSE /\ reservations' = Delete(reservations, q.res.id)
               /\ proc' = [proc EXCEPT ![p] =
                     [q EXCEPT !.pc = "inval_res", !.writeOk = TRUE]]
    /\ UNCHANGED <<nextId, tables, users, cache, auth>>

\* ------------------------------------ PATCH /tables/{id}/availability
AllTablesKey == <<"tables", "all">>
AvailableTablesKey(date, time, guests) == <<"tables", "available", date, time, guests>>
TableKey(id) == <<"table", id>>
TableNumberKey(number) == <<"table", "number", number>>
tablesCachePattern == "tables"
tableCachePattern == "table"

\* a SCAN with MATCH "<prefix>:*": the keys whose first segment is the prefix
Scan(keys, pattern) == {k \in keys : k[1] = pattern}

\* TableQ.GetByID: the row, or an error when there is none
TableGetByID(ts, id, fail) ==
    IF fail \/ ~(\E t \in ts : t.id = id)
    THEN [err |-> TRUE, row |-> NoTbl]
    ELSE [err |-> FALSE, row |-> CHOOSE t \in ts : t.id = id]

\* handleUpdateTableAvailability up to the store write
UpdateTableAvailabilityLoad(p, u, id, isAvailable, fail) ==
    /\ proc[p].pc = "idle"
    /\ LET q == [Idle EXCEPT !.op = "table", !.user = u]
           got == TableGetByID(tables, id, fail)
       IN proc' = [proc EXCEPT ![p] =
            IF got.err THEN InternalError(q, fail)
            ELSE [q EXCEPT !.pc = "table_write",
                           !.tbl = [got.row EXCEPT !.is_available = isAvailable]]]
    /\ UNCHANGED <<reservations, nextId, tables, users, cache, auth>>

\* TableQ.UpdateAvailability: SET is_available WHERE id
UpdateAvailability(ts, id, isAvailable) ==
    {IF t.id = id THEN [t EXCEPT !.is_available = isAvailable] ELSE t : t \in ts}

\* the write step going on to the re-read whatever UpdateAvailability returned
UpdateTableAvailabilityWrite_IgnoreError(p, fail) ==
    /\ proc[p].pc = "table_write"
    /\ LET q == proc[p]
       IN IF fail \/ ~(\E t \in tables : t.id = q.tbl.id)
          THEN /\ proc' = [proc EXCEPT ![p] = [q EXCEPT !.pc = "table_reread"]]
               /\ UNCHANGED tables
          ELSE /\ tables' = UpdateAvailability(tables, q.tbl.id, q.tbl.is_available)
               /\ proc' = [proc EXCEPT ![p] =
                     [q EXCEPT !.pc = "table_reread", !.writeOk = TRUE]]
    /\ UNCHANGED <<reservations, nextId, users, cache, auth>>

UpdateTableAvailabilityWrite(p, fail) ==
    /\ proc[p].pc = "table_write"
    /\ LET q == proc[p]
       IN IF fail \/ ~(\E t \in tables : t.id = q.tbl.id)
          THEN /\ proc' = [proc EXCEPT ![p] = InternalError(q, fail)]
               /\ UNCHANGED tables
          ELSE /\ tables' = UpdateAvailability(tables, q.tbl.id, q.tbl.is_available)
               /\ proc' = [proc EXCEPT ![p] =
                     [q EXCEPT !.pc = "table_reread", !.writeOk = TRUE]]
    /\ UNCHANGED <<reservations, nextId, users, cache, auth>>

\* the second GetByID of handleUpdateTableAvailability
UpdateTableAvailabilityReread(p, fail) ==
    /\ proc[p].pc = "table_reread"
    /\ LET q == proc[p]
           got == TableGetByID(tables, q.tbl.id, fail)
       IN proc' = [proc EXCEPT ![p] =
            IF got.err THEN InternalError(q, fail)
            ELSE [q EXCEPT !.pc = "inval_tables", !.tbl = got.row]]
    /\ UNCHANGED <<reservations, nextId, tables, users, cache, auth>>

\* TableCache.InvalidateTableCache: both scans, then one DEL of what they found
InvalidateTableCache(p, cfail) ==
    /\ proc[p].pc = "inval_tables"
    /\ LET q == proc[p]
           keys == Scan(cache, tablesCachePattern) \cup Scan(cache, tableCachePattern)
       IN /\ cache' = IF cfail THEN cache ELSE cache \ keys
          /\ proc' = [proc EXCEPT ![p] =
                Respond([q EXCEPT !.issued = q.issued
                            \cup {<<tablesCachePattern, "*">>, <<tableCachePattern, "*">>}],
                        200, {})]
    /\ UNCHANGED <<reservations, nextId, tables, users, auth>>

\* --------------------------------------------------- PATCH /users/{id}
UserKey(id) == <<"user", id>>

RECURSIVE Count(_, _)
Count(s, c) == IF s = <<>> THEN 0 ELSE (IF Head(s) = c THEN 1 ELSE 0) + Count(Tail(s), c)

RECURSIVE IndexOf(_, _)
IndexOf(s, c) == IF s = <<>> \/ Head(s) = c THEN 1 ELSE 1 + IndexOf(Tail(s), c)

\* isValidEmail: exactly one '@', text on both sides of it, a '.' after it
isValidEmail(email) ==
    /\ email # <<>>
    /\ Count(email, "@") = 1
    /\ IndexOf(email, "@") \notin {1, Len(email)}
    /\ Count(SubSeq(email, IndexOf(email, "@") + 1, Len(email)), ".") > 0

\* UserQ.GetByID: the row, or an error when there is none
UserGetByID(us, id, fail) ==
    IF fail \/ id \notin DOMAIN us
    THEN [err |-> TRUE, row |-> NoUsr]
    ELSE [err |-> FALSE, row |-> us[id]]

\* UserQ.GetByEmail: the row, or an error when there is none
GetByEmail(us, email, fail) ==
    IF fail \/ ~(\E i \in DOMAIN us : us[i].email = email)
    THEN [err |-> TRUE, row |-> NoUsr]
    ELSE [err |-> FALSE, row |-> us[CHOOSE i \in DOMAIN us : us[i].email = email]]

UserValidationErrors(req) ==
    (IF req.name # Nil /\ TrimSpace(Val(req.name)) = <<>> THEN {"name"} ELSE {})
    \cup (IF req.email # Nil /\ ~isValidEmail(TrimSpace(Val(req.email)))
          THEN {"email"} ELSE {})

\* handleUpdateUser up to the e-mail lookup or the store write
UpdateUserLoad(p, u, id, req, fail) ==
    /\ proc[p].pc = "idle"
    /\ LET q == [Idle EXCEPT !.op = "user", !.user = u]
           got == UserGetByID(users, id, fail)
           named == req.name # Nil /\ TrimSpace(Val(req.name)) # <<>>
           local == [got.row EXCEPT
                       !.name = IF named THEN TrimSpace(Val(req.name)) ELSE @,
                       !.phone = IF req.phone # Nil THEN TrimSpace(Val(req.phone)) ELSE @]
           errs == UserValidationErrors(req)
           lookup == /\ req.email # Nil
                     /\ isValidEmail(TrimSpace(Val(req.email)))
                     /\ TrimSpace(Val(req.email)) # got.row.email
           hasUpdates == named \/ req.phone # Nil
                         \/ (req.email # Nil /\ isValidEmail(TrimSpace(Val(req.email)))
                             /\ TrimSpace(Val(req.email)) = got.row.email)
       IN proc' = [proc EXCEPT ![p] =
            IF u # id /\ users[u].role # adminRole THEN Respond(q, 403, {})
            ELSE IF got.err THEN InternalError(q, fail)
            ELSE IF lookup
                 THEN [q EXCEPT !.pc = "user_email", !.details = errs,
                                !.usr = [local EXCEPT !.email = TrimSpace(Val(req.email))]]
            ELSE IF errs # {} THEN Respond(q, 400, errs)
            ELSE IF ~hasUpdates THEN Respond([q EXCEPT !.usr = local], 200, {})
            ELSE [q EXCEPT !.pc = "user_write", !.usr = local]]
    /\ UNCHANGED <<reservations, nextId, tables, users, cache, auth>>

\* the GetByEmail of handleUpdateUser, for an e-mail other than the user's own
UpdateUserCheckEmail(p, fail) ==
    /\ proc[p].pc = "user_email"
    /\ LET q == proc[p]
           got == GetByEmail(users, q.usr.email, fail)
           errs == IF got.row.id # q.usr.id THEN q.details \cup {"email"} ELSE q.details
       IN proc' = [proc EXCEPT ![p] =
            IF got.err THEN InternalError([q EXCEPT !.details = {}], fail)
            ELSE IF errs # {} THEN Respond(q, 400, errs)
            ELSE [q EXCEPT !.pc = "user_write"]]
    /\ UNCHANGED <<reservations, nextId, tables, users, cache, auth>>

\* UserQ.Update: SET email, name, phone WHERE id
UpdateUserWrite(p, fail) ==
    /\ proc[p].pc = "user_write"
    /\ LET q == proc[p]
       IN IF fail \/ q.usr.id \notin DOMAIN users
          THEN /\ proc' = [proc EXCEPT ![p] = InternalError(q, fail)]
               /\ UNCHANGED users
          ELSE /\ users' = [users EXCEPT ![q.usr.id] = q.usr]
               /\ proc' = [proc EXCEPT ![p] =
                     [q EXCEPT !.pc = "inval_userkey", !.writeOk = TRUE]]
    /\ UNCHANGED <<reservations, nextId, tables, cache, auth>>

\* UserCache.DeleteUser, then the response
DeleteUser(p, cfail) ==
    /\ proc[p].pc = "inval_userkey"
    /\ LET q == proc[p]
           key == UserKey(q.usr.id)
       IN /\ cache' = IF cfail THEN cache ELSE cache \ {key}
          /\ proc' = [proc EXCEPT ![p] =
                Respond([q EXCEPT !.issued = q.issued \cup {key}], 200, {})]
    /\ UNCHANGED <<reservations, nextId, tables, users, auth>>

\* ------------------------------------------------- GET /reservations...
\* A list response is the set of its rows (their order is left out).
\* ReservationQ.GetAll: WHERE user_id (when given) AND status AND date
GetAll(rs, userID, filters) ==
    {r \in rs : /\ (userID # Nil => r.user_id = Val(userID))
                /\ (filters.status # Nil => r.status = Val(filters.status))
                /\ (filters.date # Nil => r.date = DateValue(Val(filters.date)))}

\* ReservationQ.GetByUserID: WHERE user_id
GetByUserID(rs, userID) == {r \in rs : r.user_id = userID}

\* what handleGetReservations answers to user u; a date that does not parse
\* is no filter
GetReservationsResponse(rs, u, query, fail) ==
    LET filters == [status |-> query.status,
                    date |-> IF query.date # Nil /\ IsValidDate(Val(query.date))
                             THEN query.date ELSE Nil]
        userID == IF users[u].role # adminRole THEN {u} ELSE Nil
    IN IF fail THEN [code |-> 500, body |-> {}]
       ELSE [code |-> 200, body |-> GetAll(rs, userID, filters)]

\* the handler answering from the cache when the key is there: the copy
\* cached when the reservation was created
GetReservationResponse_FromCache(rs, u, id, fail) ==
    LET got == GetByID(rs, id, fail)
    IN IF got.err THEN [code |-> 500, body |-> {}]
       ELSE IF Forbidden(u, got.row) THEN [code |-> 403, body |-> {}]
       ELSE IF ReservationKey(id) \in cache
            THEN [code |-> 200,
                  body |-> {[got.row EXCEPT !.status = "pending", !.guest_name = Ann]}]
       ELSE [code |-> 200, body |-> {got.row}]

\* what handleGetReservation answers to user u
GetReservationResponse(rs, u, id, fail) ==
    LET got == GetByID(rs, id, fail)
    IN IF got.err THEN [code |-> 500, body |-> {}]
       ELSE IF Forbidden(u, got.row) THEN [code |-> 403, body |-> {}]
       ELSE [code |-> 200, body |-> {got.row}]

\* what handleGetUserReservations answers to user u
GetUserReservationsResponse(rs, u, userID, fail) ==
    IF users[u].role # adminRole /\ userID # u THEN [code |-> 403, body |-> {}]
    ELSE IF fail THEN [code |-> 500, body |-> {}]
    ELSE [code |-> 200, body |-> GetByUserID(rs, userID)]

\* the answer of a read handler written to the client
Answer(q, resp, fail) ==
    [q EXCEPT !.pc = "done", !.code = resp.code, !.body = resp.body,
              !.fault = fail /\ resp.code = 500]

GetReservations(p, u, query, fail) ==
    /\ proc[p].pc = "idle"
    /\ proc' = [proc EXCEPT ![p] =
          Answer([Idle EXCEPT !.op = "list", !.user = u],
                 GetReservationsResponse(reservations, u, query, fail), fail)]
    /\ UNCHANGED <<reservations, nextId, tables, users, cache, auth>>

GetReservation(p, u, id, fail) ==
    /\ proc[p].pc = "idle"
    /\ proc' = [proc EXCEPT ![p] =
          Answer([Idle EXCEPT !.op = "get", !.user = u, !.res = [id |-> id]],
                 GetReservationResponse(reservations, u, id, fail), fail)]
    /\ UNCHANGED <<reservations, nextId, tables, users, cache, auth>>

GetUserReservations(p, u, userID, fail) ==
    /\ proc[p].pc = "idle"
    /\ proc' = [proc EXCEPT ![p] =
          Answer([Idle EXCEPT !.op = "userlist", !.user = u, !.usr = [id |-> userID]],
                 GetUserReservationsResponse(reservations, u, userID, fail), fail)]
    /\ UNCHANGED <<reservations, nextId, tables, users, cache, auth>>

\* ------------------------------------------ GET /reports/monthly/{month}
\* A month text "YYYY-MM" is the pair of the numbers written in it.
\* $1::date + INTERVAL '1 month', for the first day of a month
NextMonth(d) == IF d[2] = 12 THEN <<d[1] + 1, 1, d[3]>> ELSE <<d[1], d[2] + 1, d[3]>>

\* the calendar month a stored date lies in, as year * 12 + (month - 1)
MonthOf(date) == date \div 31

\* the basic-stats query with the upper end of the range included
MonthRows_UpperInclusive(rs, month) ==
    LET startDate == <<month[1], month[2], 1>>
    IN {r \in rs : /\ r.date >= DateValue(startDate)
                   /\ r.date <= DateValue(NextMonth(startDate))}

\* the rows of the basic-stats query: startDate <= date < startDate + 1 month
MonthRows(rs, month) ==
    LET startDate == <<month[1], month[2], 1>>
    IN {r \in rs : /\ r.date >= DateValue(startDate)
                   /\ r.date < DateValue(NextMonth(startDate))}

\* revenue counted for every reservation of the month, whatever its status
Revenue_EveryStatus(rows) == Cardinality(rows) * 50

\* SUM(CASE WHEN status = 'completed' THEN 1 ELSE 0 END) * 50.0
Revenue(rows) == Cardinality({r \in rows : r.status = "completed"}) * 50

\* the columns both statistics queries select for the rows of one month
MonthlyStats(rows, month) ==
    [month |-> month,
     total_reservations |-> Cardinality(rows),
     completed_reservations |-> Cardinality({r \in rows : r.status = "completed"}),
     cancelled_reservations |-> Cardinality({r \in rows : r.status = "cancelled"}),
     revenue |-> Revenue(rows)]

\* TO_CHAR(date, 'YYYY-MM') of the dates of month number k
MonthText(k) == <<k \div 12, (k % 12) + 1>>

\* the overview listing the oldest month first
OrderByMonthDesc_Ascending(entries) ==
    LET key(e) == e.month[1] * 12 + e.month[2]
        n == Cardinality(entries)
    IN CHOOSE s \in [1..n -> entries] :
         /\ \A i, j \in 1..n : i < j => key(s[i]) < key(s[j])
         /\ {s[i] : i \in 1..n} = entries

\* ORDER BY month DESC, for entries of different months
OrderByMonthDesc(entries) ==
    LET key(e) == e.month[1] * 12 + e.month[2]
        n == Cardinality(entries)
    IN CHOOSE s \in [1..n -> entries] :
         /\ \A i, j \in 1..n : i < j => key(s[i]) > key(s[j])
         /\ {s[i] : i \in 1..n} = entries

\* ReportsQ.GetMonthlyStatsList: GROUP BY TO_CHAR(date, 'YYYY-MM')
GetMonthlyStatsList(rs, fail) ==
    IF fail THEN [err |-> TRUE, list |-> <<>>]
    ELSE [err |-> FALSE,
          list |-> OrderByMonthDesc(
                     {MonthlyStats({r \in rs : MonthOf(r.date) = k}, MonthText(k)) :
                        k \in {MonthOf(r.date) : r \in rs}})]

\* the month detail giving empty statistics for a month without reservations
GetDetailedMonthlyStats_ZeroOnEmpty(rs, month, fail) ==
    LET rows == MonthRows(rs, month)
    IN IF fail \/ month[2] \notin 1..12
       THEN [err |-> TRUE, msg |-> "query", stats |-> [month |-> month]]
       ELSE [err |-> FALSE, msg |-> "", stats |-> MonthlyStats(rows, month)]

\* ReportsQ.GetDetailedMonthlyStats up to its basic-stats query: an error
\* when the month is no date, when a query fails, and "statistics for this
\* month not found" when the basic-stats query returns no row
GetDetailedMonthlyStats(rs, month, fail) ==
    LET rows == MonthRows(rs, month)
    IN IF fail \/ month[2] \notin 1..12
       THEN [err |-> TRUE, msg |-> "query", stats |-> [month |-> month]]
       ELSE IF rows = {}
       THEN [err |-> TRUE, msg |-> "statistics for this month not found",
             stats |-> [month |-> month]]
       ELSE [err |-> FALSE, msg |-> "", stats |-> MonthlyStats(rows, month)]

\* ORDER BY count DESC: every order of the groups in which no count is
\* followed by a greater one (groups of equal count come in any order)
RECURSIVE OrderByCountDesc(_)
OrderByCountDesc(groups) ==
    IF groups = {} THEN {<<>>}
    ELSE LET top == {g \in groups : \A h \in groups : h.count <= g.count}
         IN UNION {{<<g>> \o s : s \in OrderByCountDesc(groups \ {g})} : g \in top}

\* LIMIT n
Limit(s, n) == SubSeq(s, 1, IF Len(s) < n THEN Len(s) ELSE n)

\* the popular-tables query counting the reservations of every status
PopularTables_EveryStatus(rs, month) ==
    LET rows == MonthRows(rs, month)
        count(t) == Cardinality({r \in rows : r.table_number = t})
    IN {Limit(s, PopularLimit) :
          s \in OrderByCountDesc({[table_number |-> t, count |-> count(t)] :
                                    t \in {r.table_number : r \in rows}})}

\* popularTablesQuery: the results the query can give
PopularTables(rs, month) ==
    LET rows == {r \in MonthRows(rs, month) : r.status = "completed"}
        count(t) == Cardinality({r \in rows : r.table_number = t})
    IN {Limit(s, PopularLimit) :
          s \in OrderByCountDesc({[table_number |-> t, count |-> count(t)] :
                                    t \in {r.table_number : r \in rows}})}

\* peakHoursQuery: the results the query can give; TO_CHAR(time, 'HH24:MI')
\* is one text per time value
PeakHours(rs, month) ==
    LET rows == {r \in MonthRows(rs, month) : r.status = "completed"}
        count(h) == Cardinality({r \in rows : r.time = h})
    IN {Limit(s, PopularLimit) :
          s \in OrderByCountDesc({[hour |-> h, count |-> count(h)] :
                                    h \in {r.time : r \in rows}})}

\* adminMiddleware, then handleGetMonthlyReports
GetMonthlyReports(p, u, fail) ==
    /\ proc[p].pc = "idle"
    /\ LET q == [Idle EXCEPT !.op = "reports", !.user = u]
           got == GetMonthlyStatsList(reservations, fail)
       IN proc' = [proc EXCEPT ![p] =
            IF users[u].role # adminRole THEN Respond(q, 403, {})
            ELSE IF got.err THEN InternalError(q, fail)
            ELSE Respond([q EXCEPT !.body = {[list |-> got.list]}], 200, {})]
    /\ UNCHANGED <<reservations, nextId, tables, users, cache, auth>>

\* adminMiddleware, then handleGetMonthlyReport
GetMonthlyReport(p, u, month, fail) ==
    /\ proc[p].pc = "idle"
    /\ LET q == [Idle EXCEPT !.op = "report", !.user = u]
           got == GetDetailedMonthlyStats(reservations, month, fail)
       IN IF users[u].role # adminRole
          THEN proc' = [proc EXCEPT ![p] = Respond(q, 403, {})]
          ELSE IF got.err
          THEN proc' = [proc EXCEPT ![p] = InternalError(q, fail)]
          ELSE \E pt \in PopularTables(reservations, month),
                  ph \in PeakHours(reservations, month) :
                 proc' = [proc EXCEPT ![p] =
                    Respond([q EXCEPT !.body =
                               {[month |-> got.stats.month,
                                 total_reservations |-> got.stats.total_reservations,
                                 completed_reservations |->
                                     got.stats.completed_reservations,
                                 cancelled_reservations |->
                                     got.stats.cancelled_reservations,
                                 revenue |-> got.stats.revenue,
                                 popular_tables |-> pt, peak_hours |-> ph]}],
                            200, {})]
    /\ UNCHANGED <<reservations, nextId, tables, users, cache, auth>>

\* ------------------------------------------------- GET /tables/available
\* the query whose date-only branch does not look at the status
GetAvailable_AnyStatus(ts, rs, filters, fail) ==
    LET taken(t) ==
          IF filters.date # Nil /\ filters.time # Nil
          THEN \E r \in rs : /\ r.table_number = t.number
                              /\ r.date = DateValue(Val(filters.date))
                              /\ r.time = TimeValue(Val(filters.time))
                              /\ r.status \in {"pending", "confirmed"}
          ELSE IF filters.date # Nil
          THEN \E r \in rs : /\ r.table_number = t.number
                              /\ r.date = DateValue(Val(filters.date))
          ELSE FALSE
    IN IF fail \/ (filters.date # Nil /\ filters.time # Nil
                      /\ ~IsValidTime(Val(filters.time)))
       THEN [err |-> TRUE, rows |-> {}]
       ELSE [err |-> FALSE,
             rows |-> {t \in ts : /\ t.is_available
                                  /\ (filters.guests # Nil
                                         => t.capacity >= Val(filters.guests))
                                  /\ ~taken(t)}]

\* the query leaving the time out of the date-and-time comparison
GetAvailable_TimeIgnored(ts, rs, filters, fail) ==
    LET taken(t) ==
          IF filters.date # Nil
          THEN \E r \in rs : /\ r.table_number = t.number
                              /\ r.date = DateValue(Val(filters.date))
                              /\ r.status \in {"pending", "confirmed"}
          ELSE FALSE
    IN IF fail \/ (filters.date # Nil /\ filters.time # Nil
                      /\ ~IsValidTime(Val(filters.time)))
       THEN [err |-> TRUE, rows |-> {}]
       ELSE [err |-> FALSE,
             rows |-> {t \in ts : /\ t.is_available
                                  /\ (filters.guests # Nil
                                         => t.capacity >= Val(filters.guests))
                                  /\ ~taken(t)}]

\* TableQ.GetAvailable: is_available, capacity >= guests when given, and the
\* number NOT IN the active reservations of the date and time, or of the date
\* alone; a time text is cast only where the date is given with it
GetAvailable(ts, rs, filters, fail) ==
    LET taken(t) ==
          IF filters.date # Nil /\ filters.time # Nil
          THEN \E r \in rs : /\ r.table_number = t.number
                              /\ r.date = DateValue(Val(filters.date))
                              /\ r.time = TimeValue(Val(filters.time))
                              /\ r.status \in {"pending", "confirmed"}
          ELSE IF filters.date # Nil
          THEN \E r \in rs : /\ r.table_number = t.number
                              /\ r.date = DateValue(Val(filters.date))
                              /\ r.status \in {"pending", "confirmed"}
          ELSE FALSE
    IN IF fail \/ (filters.date # Nil /\ filters.time # Nil
                      /\ ~IsValidTime(Val(filters.time)))
       THEN [err |-> TRUE, rows |-> {}]
       ELSE [err |-> FALSE,
             rows |-> {t \in ts : /\ t.is_available
                                  /\ (filters.guests # Nil
                                         => t.capacity >= Val(filters.guests))
                                  /\ ~taken(t)}]

\* handleGetAvailableTables: a date that does not parse is no filter
GetAvailableTables(p, u, query, fail) ==
    /\ proc[p].pc = "idle"
    /\ LET filters == [query EXCEPT !.date =
                          IF query.date # Nil /\ IsValidDate(Val(query.date))
                          THEN query.date ELSE Nil]
           q == [Idle EXCEPT !.op = "available", !.user = u, !.filters = filters]
           got == GetAvailable(tables, reservations, filters, fail)
       IN proc' = [proc EXCEPT ![p] =
            IF got.err THEN InternalError(q, fail)
            ELSE [q EXCEPT !.pc = "done", !.code = 200, !.body = got.rows]]
    /\ UNCHANGED <<reservations, nextId, tables, users, cache, auth>>

\* ------------------------------------------------------- tokens and auth
\* jwt.NewNumericDate: the instant cut to whole seconds
NumericDate(t) == t \div TicksPerSecond

\* generateToken: the signed claims; two tokens of one user issued within
\* the same second are the same string
generateToken(userID) ==
    [sub |-> userID, iat |-> NumericDate(now),
     exp |-> NumericDate(now + AccessTokenLifetime)]

NoToken == [sub |-> "none"]

\* the token's own expiry time (its exp claim) has passed
Expired(token) == now >= token.exp * TicksPerSecond

TokenKey(token) == <<"token", token>>
TokenBlacklistKey(token) == <<"token", "blacklist", token>>

\* SET key value EX expiration: the entry replaces the one the key had
RedisSet(tc, key, val, expiration) ==
    {e \in tc : e.key # key} \cup {[key |-> key, val |-> val, exp |-> now + expiration]}

\* DEL key
RedisDel(tc, key) == {e \in tc : e.key # key}

\* EXISTS key
RedisExists(tc, key) == \E e \in tc : e.key = key

\* TokenCache.IsTokenBlacklisted
IsTokenBlacklisted(tc, token, cfail) ==
    IF cfail THEN [err |-> TRUE, found |-> FALSE]
    ELSE [err |-> FALSE, found |-> RedisExists(tc, TokenBlacklistKey(token))]

\* TokenCache.GetUserIDByToken: an error also when the key is not there
GetUserIDByToken(tc, token, cfail) ==
    IF cfail \/ ~RedisExists(tc, TokenKey(token))
    THEN [err |-> TRUE, userID |-> "none"]
    ELSE [err |-> FALSE,
          userID |-> (CHOOSE e \in tc : e.key = TokenKey(token)).val]

\* userMiddleware: code 0 lets the request through to its handler
userMiddleware(tc, token, bfail, tfail, fail) ==
    LET black == IsTokenBlacklisted(tc, token, bfail)
        uid == GetUserIDByToken(tc, token, tfail)
        got == UserGetByID(users, uid.userID, fail)
    IN IF token = NoToken THEN [code |-> 401, user |-> "none"]
       ELSE IF black.err THEN [code |-> 500, user |-> "none"]
       ELSE IF black.found THEN [code |-> 401, user |-> "none"]
       ELSE IF uid.err THEN [code |-> 401, user |-> "none"]
       ELSE IF got.err THEN [code |-> 500, user |-> "none"]
       ELSE [code |-> 0, user |-> got.row.id]

\* handleLogin up to and including generateToken
LoginGenerate(p, email, passwordOk, fail) ==
    /\ proc[p].pc = "idle"
    /\ LET q == [Idle EXCEPT !.op = "login"]
           got == GetByEmail(users, email, fail)
       IN proc' = [proc EXCEPT ![p] =
            IF got.err THEN InternalError(q, fail)
            ELSE IF ~passwordOk THEN Respond(q, 401, {})
            ELSE [q EXCEPT !.pc = "login_set", !.user = got.row.id,
                           !.token = generateToken(got.row.id)]]
    /\ UNCHANGED <<reservations, nextId, tables, users, cache, auth>>

\* TokenCache.SetToken with the configured lifetime, then the response
LoginSetToken(p, cfail) ==
    /\ proc[p].pc = "login_set"
    /\ LET q == proc[p]
       IN /\ tokenCache' = IF cfail THEN tokenCache
                           ELSE RedisSet(tokenCache, TokenKey(q.token), q.user,
                                         AccessTokenLifetime)
          /\ proc' = [proc EXCEPT ![p] = Respond(q, 200, {})]
    /\ UNCHANGED <<reservations, nextId, tables, users, cache, now, loggedOut>>

\* the validation of handleRegister: email, password length, name
RegisterValidationErrors(req) ==
    (IF ~isValidEmail(TrimSpace(req.email)) THEN {"email"} ELSE {})
    \cup (IF Len(req.password) < 6 THEN {"password"} ELSE {})
    \cup (IF TrimSpace(req.name) = <<>> THEN {"name"} ELSE {})

\* handleRegister up to the email lookup, which returns an error when no
\* user has the email, so that the handler never goes on to UserQ.Create
Register(p, req, fail) ==
    /\ proc[p].pc = "idle"
    /\ LET q == [Idle EXCEPT !.op = "register"]
           errs == RegisterValidationErrors(req)
           got == GetByEmail(users, TrimSpace(req.email), fail)
       IN proc' = [proc EXCEPT ![p] =
            IF errs # {} THEN Respond(q, 400, errs)
            ELSE IF got.err THEN InternalError(q, fail)
            ELSE Respond(q, 400, {"email"})]
    /\ UNCHANGED <<reservations, nextId, tables, users, cache, auth>>

\* GET /auth/me: userMiddleware, then handleGetMe
GetMe(p, token, bfail, tfail, fail) ==
    /\ proc[p].pc = "idle"
    /\ LET mw == userMiddleware(tokenCache, token, bfail, tfail, fail)
           q == [Idle EXCEPT !.op = "me", !.token = token, !.user = mw.user]
       IN proc' = [proc EXCEPT ![p] =
            IF mw.code # 0 THEN Respond(q, mw.code, {})
            ELSE Respond([q EXCEPT !.body = {users[mw.user]}], 200, {})]
    /\ UNCHANGED <<reservations, nextId, tables, users, cache, auth>>

\* POST /auth/logout: userMiddleware, then handleLogout up to DeleteToken
LogoutBegin(p, token, bfail, tfail, fail) ==
    /\ proc[p].pc = "idle"
    /\ LET mw == userMiddleware(tokenCache, token, bfail, tfail, fail)
           q == [Idle EXCEPT !.op = "logout", !.token = token, !.user = mw.user]
       IN proc' = [proc EXCEPT ![p] =
            IF mw.code # 0 THEN Respond(q, mw.code, {})
            ELSE [q EXCEPT !.pc = "logout_del"]]
    /\ UNCHANGED <<reservations, nextId, tables, users, cache, auth>>

\* TokenCache.DeleteToken; an error is logged
LogoutDeleteToken(p, cfail) ==
    /\ proc[p].pc = "logout_del"
    /\ tokenCache' = IF cfail THEN tokenCache
                     ELSE RedisDel(tokenCache, TokenKey(proc[p].token))
    /\ proc' = [proc EXCEPT ![p].pc = "logout_bl"]
    /\ UNCHANGED <<reservations, nextId, tables, users, cache, now, loggedOut>>

\* TokenCache.SetTokenBlacklist; an error is logged; then the 200 response
LogoutBlacklist(p, cfail) ==
    /\ proc[p].pc = "logout_bl"
    /\ LET q == proc[p]
       IN /\ tokenCache' = IF cfail THEN tokenCache
                           ELSE RedisSet(tokenCache, TokenBlacklistKey(q.token), "1",
                                         AccessTokenLifetime)
          /\ proc' = [proc EXCEPT ![p] = Respond(q, 200, {})]
          /\ loggedOut' = loggedOut \cup {q.token}
    /\ UNCHANGED <<reservations, nextId, tables, users, cache, now>>

\* time passes; Redis drops the keys whose expiration has run out
Tick ==
    /\ now < MaxTime
    /\ now' = now + 1
    /\ tokenCache' = {e \in tokenCache : e.exp > now + 1}
    /\ UNCHANGED <<reservations, nextId, tables, users, cache, proc, loggedOut>>

\* ------------------------------------------- the invalidation methods
MonthlyStatsKey(month) == <<"reports", "monthly", month[1], month[2]>>
MonthlyStatsListKey == <<"reports", "monthly", "list">>
reportsCachePattern == "reports"

\* a DEL that reports a key that is not there as an error
Del_MissingIsError(c, keys, cfail) ==
    IF cfail \/ keys \cap c = {} THEN [err |-> TRUE, cache |-> c]
    ELSE [err |-> FALSE, cache |-> c \ keys]

\* client.Del(ctx, keys...).Err(): the keys that are there are removed, and
\* only a failing command is an error
Del(c, keys, cfail) ==
    IF cfail THEN [err |-> TRUE, cache |-> c] ELSE [err |-> FALSE, cache |-> c \ keys]

\* the two scans of InvalidateTableCache, and one DEL when they found keys
SweepTables(c, cfail) ==
    LET keys == Scan(c, tablesCachePattern) \cup Scan(c, tableCachePattern)
    IN IF cfail THEN [err |-> TRUE, cache |-> c]
       ELSE IF keys # {} THEN Del(c, keys, FALSE)
       ELSE [err |-> FALSE, cache |-> c]

\* the scan of InvalidateAllStats, and one DEL when it found keys
SweepStats(c, cfail) ==
    LET keys == Scan(c, reportsCachePattern)
    IN IF cfail THEN [err |-> TRUE, cache |-> c]
       ELSE IF keys # {} THEN Del(c, keys, FALSE)
       ELSE [err |-> FALSE, cache |-> c]

\* TokenCache.DeleteToken
DeleteToken(tc, token, cfail) ==
    IF cfail THEN [err |-> TRUE, cache |-> tc]
    ELSE [err |-> FALSE, cache |-> RedisDel(tc, TokenKey(token))]

\* what a call of an invalidation method leaves behind: the error it
\* returned is kept in code (0 for nil), the failure of Redis in fault
Invalidated(method, got, before, cfail) ==
    [Idle EXCEPT !.pc = "done", !.op = method, !.fault = cfail,
                 !.code = IF got.err THEN 1 ELSE 0,
                 !.writeOk = got.cache # before]

CallDeleteReservation(p, id, cfail) ==
    /\ proc[p].pc = "idle"
    /\ LET got == Del(cache, {ReservationKey(id)}, cfail)
       IN /\ cache' = got.cache
          /\ proc' = [proc EXCEPT ![p] = Invalidated("DeleteReservation", got, cache, cfail)]
    /\ UNCHANGED <<reservations, nextId, tables, users, auth>>

CallInvalidateUserReservations(p, u, cfail) ==
    /\ proc[p].pc = "idle"
    /\ LET got == Del(cache, {UserReservationsKey(u)}, cfail)
       IN /\ cache' = got.cache
          /\ proc' = [proc EXCEPT ![p] = Invalidated("InvalidateUserReservations", got, cache, cfail)]
    /\ UNCHANGED <<reservations, nextId, tables, users, auth>>

CallDeleteUser(p, u, cfail) ==
    /\ proc[p].pc = "idle"
    /\ LET got == Del(cache, {UserKey(u)}, cfail)
       IN /\ cache' = got.cache
          /\ proc' = [proc EXCEPT ![p] = Invalidated("DeleteUser", got, cache, cfail)]
    /\ UNCHANGED <<reservations, nextId, tables, users, auth>>

CallInvalidateMonthlyStats(p, month, cfail) ==
    /\ proc[p].pc = "idle"
    /\ LET got == Del(cache, {MonthlyStatsKey(month)}, cfail)
       IN /\ cache' = got.cache
          /\ proc' = [proc EXCEPT ![p] = Invalidated("InvalidateMonthlyStats", got, cache, cfail)]
    /\ UNCHANGED <<reservations, nextId, tables, users, auth>>

CallInvalidateTableCache(p, cfail) ==
    /\ proc[p].pc = "idle"
    /\ LET got == SweepTables(cache, cfail)
       IN /\ cache' = got.cache
          /\ proc' = [proc EXCEPT ![p] = Invalidated("InvalidateTableCache", got, cache, cfail)]
    /\ UNCHANGED <<reservations, nextId, tables, users, auth>>

CallInvalidateAllStats(p, cfail) ==
    /\ proc[p].pc = "idle"
    /\ LET got == SweepStats(cache, cfail)
       IN /\ cache' = got.cache
          /\ proc' = [proc EXCEPT ![p] = Invalidated("InvalidateAllStats", got, cache, cfail)]
    /\ UNCHANGED <<reservations, nextId, tables, users, auth>>

CallDeleteToken(p, token, cfail) ==
    /\ proc[p].pc = "idle"
    /\ LET got == DeleteToken(tokenCache, token, cfail)
       IN /\ tokenCache' = got.cache
          /\ proc' = [proc EXCEPT ![p] =
                [Invalidated("DeleteToken", got, tokenCache, cfail)
                    EXCEPT !.token = token]]
    /\ UNCHANGED <<reservations, nextId, tables, users, cache, now, loggedOut>>

\* TokenCache.SetToken
CallSetToken(token, u) ==
    /\ ~RedisExists(tokenCache, TokenKey(token))
    /\ tokenCache' = RedisSet(tokenCache, TokenKey(token), u, AccessTokenLifetime)
    /\ UNCHANGED <<reservations, nextId, tables, users, cache, proc, now, loggedOut>>

\* ----------------------------------------------------- cache population
\* the Set* methods of the cache layer: SET key value EX ttl
CacheSet(key) ==
    /\ key \notin cache
    /\ cache' = cache \cup {key}
    /\ UNCHANGED <<reservations, nextId, tables, users, proc, auth>>

\* a key's TTL runs out
CacheExpire(key) ==
    /\ key \in cache
    /\ cache' = cache \ {key}
    /\ UNCHANGED <<reservations, nextId, tables, users, proc, auth>>

\* the response has been written; the goroutine ends
Finish(p) ==
    /\ proc[p].pc = "done"
    /\ proc' = [proc EXCEPT ![p] = Idle]
    /\ UNCHANGED <<reservations, nextId, tables, users, cache, auth>>

\* ------------------------------------------------------------------ Init
EmailOf(u) == <<u, "@", "x", ".", "y">>

Init ==
    /\ reservations = {}
    /\ nextId = 1
    /\ tables = {[id |-> "tb1", number |-> T1, capacity |-> 2, is_available |-> TRUE],
                 [id |-> "tb2", number |-> T2, capacity |-> 4, is_available |-> TRUE]}
    /\ users = [u \in Users |->
                  [id |-> u, name |-> Ann, email |-> EmailOf(u), phone |-> <<>>,
                   role |-> IF u = "admin" THEN adminRole ELSE "user"]]
    /\ cache = {}
    /\ proc = [p \in Procs |-> Idle]
    /\ now = 0
    /\ tokenCache = {}
    /\ loggedOut = {}

\* ---------------------------------------------------------------- inputs
D1 == <<2025, 12, 25>>
D2 == <<2025, 12, 26>>
DBad == <<2025, 2, 30>>
Time19 == [h |-> 19, m |-> 0, pad |-> TRUE]
Time9 == [h |-> 9, m |-> 0, pad |-> FALSE]
Time09 == [h |-> 9, m |-> 0, pad |-> TRUE]
TimeBad == [h |-> 25, m |-> 0, pad |-> TRUE]
Blank == <<" ">>

ReservationIds == 1..MaxReservations
StatusInputs == validStatuses \cup {"bogus"}

\* the reservation handlers, with the request bodies drawn from the given sets
ReservationRequest(p, creators, creates, updates, statuses) ==
    \/ \E u \in creators, req \in creates, fail \in BOOLEAN :
          CreateReservationCheck(p, u, req, fail)
    \/ \E fail \in BOOLEAN : CreateReservationInsert(p, fail)
    \/ \E u \in Users, id \in ReservationIds, req \in updates, fail \in BOOLEAN :
          UpdateReservationLoad(p, u, id, req, fail)
    \/ \E fail \in BOOLEAN : UpdateReservationWrite(p, fail)
    \/ \E u \in Users, id \in ReservationIds, s \in statuses, fail \in BOOLEAN :
          UpdateStatusLoad(p, u, id, s, fail)
    \/ \E fail \in BOOLEAN : UpdateStatusWrite(p, fail)
    \/ \E fail \in BOOLEAN : UpdateStatusReread(p, fail)
    \/ \E u \in Users, id \in ReservationIds, fail \in BOOLEAN :
          DeleteReservationLoad(p, u, id, fail)
    \/ \E fail \in BOOLEAN : DeleteReservationWrite(p, fail)
    \/ \E cfail \in BOOLEAN : DeleteReservationKey(p, cfail)
    \/ \E cfail \in BOOLEAN : InvalidateUserReservations(p, cfail)
    \/ Finish(p)

\* ------------------------------- Spec: reservation requests, one at a time
CreateRequests ==
    [guestName : {Ann, Blank}, date : {D1, DBad},
     time : {Time9, Time09, TimeBad},
     tableNumber : {T1, T2, T3, Blank \o T1, Blank}]

UpdateRequests ==
    [guestName : {Nil, {Ann}, {Blank}}, date : {Nil, {DBad}},
     time : {Nil, {Time09}, {TimeBad}},
     tableNumber : {Nil, {T1}, {T2}, {T3}, {Blank}}]

Next == ReservationRequest("p1", {"u1"}, CreateRequests, UpdateRequests, StatusInputs)

Spec == Init /\ [][Next]_vars

\* --------------------------- SpecConc: create requests of two goroutines
ConcCreateRequests ==
    [guestName : {Ann}, date : {D1}, time : {Time9, Time09}, tableNumber : {T1, T2}]

NextConc ==
    \E p \in Procs :
       \/ \E u \in {"u1", "u2"}, req \in ConcCreateRequests, fail \in BOOLEAN :
             CreateReservationCheck(p, u, req, fail)
       \/ \E fail \in BOOLEAN : CreateReservationInsert(p, fail)
       \/ \E cfail \in BOOLEAN : InvalidateUserReservations(p, cfail)
       \/ Finish(p)

SpecConc == Init /\ [][NextConc]_vars

\* ------------------------------------- SpecStore: the store's own methods
StoreRows ==
    [id : {0}, user_id : {"u1"}, guest_name : {Ann},
     date : {DateValue(D1), DateValue(D2)},
     time : {TimeValue(Time9), TimeValue(Time19)},
     table_number : {T1, T2}, status : validStatuses]

StoreCreate(row) ==
    /\ nextId <= MaxReservations
    /\ reservations' = Create(reservations, [row EXCEPT !.id = nextId])
    /\ nextId' = nextId + 1
    /\ UNCHANGED <<tables, users, cache, proc, auth>>

StoreUpdateStatus(id, status) ==
    /\ \E r \in reservations : r.id = id
    /\ reservations' = UpdateStatus(reservations, id, status)
    /\ UNCHANGED <<nextId, tables, users, cache, proc, auth>>

StoreUpdate(id, local) ==
    /\ \E r \in reservations : r.id = id
    /\ reservations' = Update(reservations, id, local)
    /\ UNCHANGED <<nextId, tables, users, cache, proc, auth>>

StoreDelete(id) ==
    /\ \E r \in reservations : r.id = id
    /\ reservations' = Delete(reservations, id)
    /\ UNCHANGED <<nextId, tables, users, cache, proc, auth>>

NextStore ==
    \/ \E row \in StoreRows : StoreCreate(row)
    \/ \E id \in ReservationIds, s \in validStatuses : StoreUpdateStatus(id, s)
    \/ \E id \in ReservationIds, row \in StoreRows : StoreUpdate(id, row)
    \/ \E id \in ReservationIds : StoreDelete(id)

SpecStore == Init /\ [][NextStore]_vars

\* ------------- SpecCache: every write handler, with a cache that is filled
CacheCreateRequests ==
    [guestName : {Ann}, date : {D1}, time : {Time09}, tableNumber : {T1, T3}]

CacheUpdateRequests ==
    [guestName : {Nil, {Ann}, {Blank}}, date : {Nil}, time : {Nil},
     tableNumber : {Nil}]

UserRequests ==
    [name : {Nil, {Bob}, {Blank}}, phone : {Nil},
     email : {Nil, {EmailOf("u2")}, {<<"n", "@", "x", ".", "y">>}, {<<"n", "@">>}}]

CachedKeys ==
    {ReservationKey(1), UserReservationsKey("u1"), AllTablesKey,
     AvailableTablesKey(DateValue(D1), TimeValue(Time09), 2), UserKey("u1")}

NextCache ==
    \/ ReservationRequest("p1", {"u1"}, CacheCreateRequests, CacheUpdateRequests,
                          {"cancelled", "bogus"})
    \/ \E u \in {"u1", "admin"}, id \in {"tb1", "tb9"}, b \in BOOLEAN, fail \in BOOLEAN :
          UpdateTableAvailabilityLoad("p1", u, id, b, fail)
    \/ \E fail \in BOOLEAN : UpdateTableAvailabilityWrite("p1", fail)
    \/ \E fail \in BOOLEAN : UpdateTableAvailabilityReread("p1", fail)
    \/ \E cfail \in BOOLEAN : InvalidateTableCache("p1", cfail)
    \/ \E u \in {"u1", "u2"}, id \in {"u1", "ghost"}, req \in UserRequests,
          fail \in BOOLEAN :
          UpdateUserLoad("p1", u, id, req, fail)
    \/ \E fail \in BOOLEAN : UpdateUserCheckEmail("p1", fail)
    \/ \E fail \in BOOLEAN : UpdateUserWrite("p1", fail)
    \/ \E cfail \in BOOLEAN : DeleteUser("p1", cfail)
    \/ \E key \in CachedKeys : CacheSet(key)
    \/ \E key \in CachedKeys : CacheExpire(key)

SpecCache == Init /\ [][NextCache]_vars

\* ---------- SpecRead: reservations of two owners written, cached and read
ReadCreateRequests ==
    [guestName : {Ann}, date : {D1}, time : {Time09}, tableNumber : {T1}]

ReadUpdateRequests ==
    [guestName : {Nil, {Bob}}, date : {Nil}, time : {Nil}, tableNumber : {Nil}]

ReadQueries == [status : {Nil, {"pending"}}, date : {Nil, {D2}, {DBad}}]

ReadMonths == {<<2025, 12>>, <<2025, 11>>, <<2025, 13>>}

ReadCachedKeys == {ReservationKey(1), UserReservationsKey("u1")}

NextRead ==
    \/ ReservationRequest("p1", {"u1", "u2"}, ReadCreateRequests,
                          ReadUpdateRequests, {"cancelled"})
    \/ \E u \in Users, query \in ReadQueries, fail \in BOOLEAN :
          GetReservations("p1", u, query, fail)
    \/ \E u \in Users, id \in ReservationIds, fail \in BOOLEAN :
          GetReservation("p1", u, id, fail)
    \/ \E u \in Users, userID \in {"u1", "u2"}, fail \in BOOLEAN :
          GetUserReservations("p1", u, userID, fail)
    \/ \E u \in {"u1", "admin"}, month \in ReadMonths, fail \in BOOLEAN :
          GetMonthlyReport("p1", u, month, fail)
    \/ \E key \in ReadCachedKeys : CacheSet(key)
    \/ \E key \in ReadCachedKeys : CacheExpire(key)

SpecRead == Init /\ [][NextRead]_vars

\* ------------------------------ SpecAuth: login, logout and the middleware
\* every token generateToken can produce for u1 within the run, and none
Tokens ==
    {[sub |-> "u1", iat |-> NumericDate(t),
      exp |-> NumericDate(t + AccessTokenLifetime)] : t \in 0..MaxTime}
    \cup {NoToken}

RegisterRequests ==
    [email : {EmailOf("u1"), EmailOf("ghost"), <<"n", "@">>}, name : {Ann, Blank},
     password : {<<"s", "e", "c", "r", "e", "t">>, <<"s", "h", "o", "r", "t">>}]

NextAuth ==
    \/ \E email \in {EmailOf("u1"), EmailOf("ghost")}, ok \in BOOLEAN, fail \in BOOLEAN :
          LoginGenerate("p1", email, ok, fail)
    \/ \E cfail \in BOOLEAN : LoginSetToken("p1", cfail)
    \/ \E req \in RegisterRequests, fail \in BOOLEAN : Register("p1", req, fail)
    \/ \E token \in Tokens, bfail \in BOOLEAN, tfail \in BOOLEAN, fail \in BOOLEAN :
          GetMe("p1", token, bfail, tfail, fail)
    \/ \E token \in Tokens, bfail \in BOOLEAN, tfail \in BOOLEAN, fail \in BOOLEAN :
          LogoutBegin("p1", token, bfail, tfail, fail)
    \/ \E cfail \in BOOLEAN : LogoutDeleteToken("p1", cfail)
    \/ \E cfail \in BOOLEAN : LogoutBlacklist("p1", cfail)
    \/ Tick
    \/ Finish("p1")

SpecAuth == Init /\ [][NextAuth]_vars

\* ------------------- SpecTables: rows and flags written, availability read
TableRows ==
    {[id |-> 0, user_id |-> "u1", guest_name |-> Ann, date |-> DateValue(slot[1]),
      time |-> TimeValue(slot[2]), table_number |-> slot[3], status |-> status] :
       slot \in {<<D1, Time9, T1>>, <<D1, Time19, T1>>, <<D2, Time19, T1>>,
                 <<D1, Time19, T2>>},
       status \in validStatuses}

TableQueries ==
    [date : {Nil, {D1}, {DBad}}, time : {Nil, {Time19}, {TimeBad}}, guests : {Nil, {4}}]

StoreUpdateAvailability(id, isAvailable) ==
    /\ tables' = UpdateAvailability(tables, id, isAvailable)
    /\ UNCHANGED <<reservations, nextId, users, cache, proc, auth>>

NextTables ==
    \/ \E row \in TableRows : StoreCreate(row)
    \/ \E isAvailable \in BOOLEAN : StoreUpdateAvailability("tb1", isAvailable)
    \/ \E query \in TableQueries, fail \in BOOLEAN :
          GetAvailableTables("p1", "u1", query, fail)
    \/ Finish("p1")

SpecTables == Init /\ [][NextTables]_vars

\* ----------- SpecReport: rows dated around month ends, and the month detail
ReportDates ==
    {<<2025, 2, 28>>, <<2025, 3, 1>>, <<2024, 2, 29>>, <<2024, 3, 1>>,
     <<2025, 4, 30>>, <<2025, 5, 1>>, <<2025, 12, 31>>, <<2026, 1, 1>>,
     <<2025, 12, 1>>, <<2025, 11, 30>>}

ReportRows ==
    [id : {0}, user_id : {"u1"}, guest_name : {Ann},
     date : {DateValue(d) : d \in ReportDates}, time : {TimeValue(Time19)},
     table_number : {T1}, status : {"pending", "completed"}]

ReportMonths ==
    {<<2025, 2>>, <<2024, 2>>, <<2025, 4>>, <<2025, 12>>, <<2025, 3>>, <<2025, 13>>}

NextReport ==
    \/ \E row \in ReportRows : StoreCreate(row)
    \/ \E u \in {"admin", "u1"}, month \in ReportMonths, fail \in BOOLEAN :
          GetMonthlyReport("p1", u, month, fail)
    \/ Finish("p1")

SpecReport == Init /\ [][NextReport]_vars

\* ------ SpecStats: stores of completed and other reservations, and reports
Digit == <<"0", "1", "2", "3", "4", "5", "6", "7", "8", "9">>

\* the table numbers "T1", "T2", ... "T19"
TableNo(i) == IF i < 10 THEN <<"T", Digit[i + 1]>> ELSE <<"T", "1", Digit[i - 9]>>

StatsRow(id, date, time, i, status, guests) ==
    [id |-> id, user_id |-> "u1", guest_name |-> Ann, date |-> DateValue(date),
     time |-> TimeValue(time), table_number |-> TableNo(i), status |-> status,
     guests |-> guests]

\* n completed reservations of table i in December 2025
CompletedRows(i, n) ==
    {StatsRow(i * 20 + k, IF k = 1 THEN <<2025, 12, 31>> ELSE D1,
              IF k % 2 = 1 THEN Time19 ELSE Time9, i, "completed", k + 1) :
       k \in 1..n}

OtherRows ==
    {StatsRow(1, D1, Time19, 1, "pending", 2),
     StatsRow(2, D2, Time19, 2, "confirmed", 4),
     StatsRow(3, D1, Time9, 2, "cancelled", 2),
     StatsRow(4, <<2026, 1, 1>>, Time9, 2, "completed", 2),
     StatsRow(5, <<2025, 11, 30>>, Time9, 1, "pending", 2)}

\* every table up to WideTables with completed reservations: one more than
\* the LIMIT, the counts all different or the last two the same
WideStore(tie) ==
    UNION {CompletedRows(i, IF tie /\ i = WideTables THEN 1 ELSE WideTables + 1 - i) :
             i \in 1..WideTables}

StatsStores ==
    {CompletedRows(1, c1) \cup CompletedRows(2, c2) \cup other :
       c1 \in 0..MaxCompleted, c2 \in 0..MaxCompleted, other \in SUBSET OtherRows}
    \cup {WideStore(tie) : tie \in BOOLEAN}

StatsMonths == {<<2025, 12>>, <<2026, 1>>, <<2025, 10>>, <<2025, 13>>}

InitStats ==
    /\ reservations \in StatsStores
    /\ nextId = 20 * (WideTables + 1)
    /\ tables = {[id |-> "tb1", number |-> T1, capacity |-> 2, is_available |-> TRUE],
                 [id |-> "tb2", number |-> T2, capacity |-> 4, is_available |-> TRUE]}
    /\ users = [u \in Users |->
                  [id |-> u, name |-> Ann, email |-> EmailOf(u), phone |-> <<>>,
                   role |-> IF u = "admin" THEN adminRole ELSE "user"]]
    /\ cache = {}
    /\ proc = [p \in Procs |-> Idle]
    /\ now = 0
    /\ tokenCache = {}
    /\ loggedOut = {}

NextStats ==
    \/ \E u \in {"admin", "u1"}, fail \in BOOLEAN : GetMonthlyReports("p1", u, fail)
    \/ \E u \in {"admin", "u1"}, month \in StatsMonths, fail \in BOOLEAN :
          GetMonthlyReport("p1", u, month, fail)
    \/ Finish("p1")

SpecStats == InitStats /\ [][NextStats]_vars

\* ---------------- SpecInval: keys set, and the invalidation methods called
InvalKeys ==
    {ReservationKey(1), UserReservationsKey("u1"), UserKey("u1"),
     MonthlyStatsKey(<<2025, 12>>), MonthlyStatsListKey, AllTablesKey, TableKey("tb1")}

InvalMonths == {<<2025, 12>>, <<2025, 11>>}
InvalTokens == {generateToken("u1")}

NextInval ==
    \/ \E key \in InvalKeys : CacheSet(key)
    \/ \E token \in InvalTokens : CallSetToken(token, "u1")
    \/ \E id \in ReservationIds, cfail \in BOOLEAN :
          CallDeleteReservation("p1", id, cfail)
    \/ \E u \in {"u1", "u2"}, cfail \in BOOLEAN :
          CallInvalidateUserReservations("p1", u, cfail)
    \/ \E u \in {"u1", "u2"}, cfail \in BOOLEAN : CallDeleteUser("p1", u, cfail)
    \/ \E month \in InvalMonths, cfail \in BOOLEAN :
          CallInvalidateMonthlyStats("p1", month, cfail)
    \/ \E cfail \in BOOLEAN : CallInvalidateTableCache("p1", cfail)
    \/ \E cfail \in BOOLEAN : CallInvalidateAllStats("p1", cfail)
    \/ \E token \in InvalTokens, cfail \in BOOLEAN : CallDeleteToken("p1", token, cfail)
    \/ Finish("p1")

SpecInval == Init /\ [][NextInval]_vars

\* ------- SpecPatch: two PATCH requests for one reservation, run concurrently
PatchRow ==
    [id |-> 0, user_id |-> "u1", guest_name |-> Ann, date |-> DateValue(D1),
     time |-> TimeValue(Time19), table_number |-> T1, status |-> "pending"]

\* p1 sets the guest name only; p2 sets the table number only or the date only
PatchRequests(p) ==
    IF p = "p1"
    THEN {[guestName |-> {Bob}, date |-> Nil, time |-> Nil, tableNumber |-> Nil]}
    ELSE {[guestName |-> Nil, date |-> Nil, time |-> Nil, tableNumber |-> {T2}],
          [guestName |-> Nil, date |-> {D2}, time |-> Nil, tableNumber |-> Nil]}

NextPatch ==
    \/ StoreCreate(PatchRow)
    \/ \E p \in Procs :
          \/ \E id \in ReservationIds, req \in PatchRequests(p), fail \in BOOLEAN :
                UpdateReservationLoad(p, "u1", id, req, fail)
          \/ \E fail \in BOOLEAN : UpdateReservationWrite(p, fail)
          \/ \E cfail \in BOOLEAN : DeleteReservationKey(p, cfail)
          \/ \E cfail \in BOOLEAN : InvalidateUserReservations(p, cfail)
          \/ Finish(p)

SpecPatch == Init /\ [][NextPatch]_vars

\* ================================================================ claims
\* two reservations on the same table, date and time
SameSlot(r1, r2) ==
    /\ r1.table_number = r2.table_number
    /\ r1.date = r2.date
    /\ r1.time = r2.time

Active(r) == r.status \in ActiveStatuses

\* C1: while create requests run concurrently, the store never holds two
\* pending-or-confirmed reservations for the same table, date and time.
C1_NoConcurrentDoubleBooking ==
    \A r1 \in reservations, r2 \in reservations :
        (r1.id # r2.id /\ Active(r1) /\ Active(r2)) => ~SameSlot(r1, r2)

\* C2: after any sequence of create, update, status change and delete, each
\* (table, date, time) carries at most one pending-or-confirmed reservation.
C2_AtMostOneActivePerSlot ==
    \A r \in reservations :
        Cardinality({o \in reservations : Active(o) /\ SameSlot(o, r)}) <= 1

\* the request of goroutine p takes a step
Steps(p) == proc'[p] # proc[p]

\* C3: a valid create request for a slot without a pending or confirmed
\* reservation goes on to insert the reservation with status pending and is
\* answered 201; a create request for a slot that has one is answered 400
\* with the single detail tableNumber and leaves the store as it was.
C3_CreateFreeThenRejectSecond ==
    [][\A p \in Procs :
         LET q == proc[p]
             n == proc'[p]
             busy == \E r \in reservations : Active(r) /\ SameSlot(r, n.res)
         IN /\ (q.pc = "idle" /\ n.op = "create" /\ n.res # NoRes /\ ~n.fault)
                 => IF busy
                    THEN /\ n.pc = "done" /\ n.code = 400
                         /\ n.details = {"tableNumber"}
                         /\ reservations' = reservations
                    ELSE n.pc = "insert"
            /\ (q.pc = "insert" /\ Steps(p) /\ ~n.fault
                    /\ q.res.table_number \in TableNumbers(tables))
                 => /\ n.res.status = "pending"
                    /\ n.res.id \notin {r.id : r \in reservations}
                    /\ reservations' = reservations \cup {n.res}
                    /\ SameSlot(n.res, q.res)
            /\ (q.op = "create" /\ q.pc = "inval_user" /\ Steps(p))
                 => (n.pc = "done" /\ n.code = 201 /\ n.res \in reservations')
      ]_vars

\* a second create request for the slot of a stored pending reservation has
\* been rejected
C3_Witness ==
    \E p \in Procs :
       /\ proc[p].op = "create" /\ proc[p].pc = "done" /\ proc[p].code = 400
       /\ proc[p].details = {"tableNumber"} /\ proc[p].res # NoRes
       /\ \E r \in reservations : r.status = "pending" /\ SameSlot(r, proc[p].res)

\* C4: CheckTableAvailability answers false exactly when at least one
\* stored reservation has that table number, that date, that time and a
\* status of pending or confirmed.
C4_AvailabilityIffNoActiveOnSlot ==
    \A t \in {T1, T2, T3}, d \in {D1, D2}, ti \in {Time9, Time09, Time19} :
       LET av == CheckTableAvailability(reservations, t, d, ti, FALSE)
       IN /\ ~av.err
          /\ (av.available = FALSE) <=>
                (\E r \in reservations :
                    /\ r.table_number = t
                    /\ r.date = DateValue(d)
                    /\ r.time = TimeValue(ti)
                    /\ r.status \in {"pending", "confirmed"})

\* one slot is taken by a confirmed reservation while another slot holds
\* only a cancelled one and a third only a completed one
C4_Witness ==
    \E r1 \in reservations, r2 \in reservations :
       /\ r1.status = "confirmed" /\ r2.status \in {"cancelled", "completed"}
       /\ r1.table_number = T1 /\ r1.date = DateValue(D1) /\ r1.time = TimeValue(Time19)
       /\ r2.table_number = T1 /\ r2.date = DateValue(D2) /\ r2.time = TimeValue(Time19)
       /\ ~CheckTableAvailability(reservations, T1, D1, Time19, FALSE).available
       /\ CheckTableAvailability(reservations, T1, D2, Time19, FALSE).available

LegalTransitions ==
    {<<"pending", "confirmed">>, <<"confirmed", "completed">>,
     <<"pending", "cancelled">>, <<"confirmed", "cancelled">>}

\* C5: a stored reservation's status only moves pending -> confirmed,
\* confirmed -> completed, pending -> cancelled or confirmed -> cancelled.
C5_OnlyLegalTransitions ==
    [][\A r \in reservations, n \in reservations' :
         (r.id = n.id /\ r.status # n.status)
            => <<r.status, n.status>> \in LegalTransitions]_vars

\* C6: right after a reservation's status has been changed to cancelled,
\* the availability check for its table, date and time answers true.
C6_CancelFreesSlot ==
    [][\A r \in reservations, n \in reservations' :
         (r.id = n.id /\ r.status # "cancelled" /\ n.status = "cancelled")
            => CheckTableAvailabilityCount(reservations', n.table_number,
                                           n.date, n.time) = 0]_vars

\* C7: a step of a request made by a user without the admin role leaves
\* every reservation owned by another user in the store, unchanged.
C7_NonAdminOnlyOwn ==
    [][\A p \in Procs :
         (Steps(p) /\ proc[p].user \in Users
                   /\ users[proc[p].user].role # adminRole)
            => \A r \in reservations :
                  r.user_id # proc[p].user => r \in reservations']_vars

ReservationOps == {"create", "update", "status", "delete"}

\* C8: a reservation request whose store write succeeded has, by the time
\* it is answered, issued the delete of reservation:{id} and the delete of
\* reservations:user:{owner}.
C8_ReservationWriteInvalidates ==
    \A p \in Procs :
       (proc[p].pc = "done" /\ proc[p].op \in ReservationOps /\ proc[p].writeOk)
          => {ReservationKey(proc[p].res.id),
              UserReservationsKey(proc[p].res.user_id)} \subseteq proc[p].issued

\* C9: when a table availability request whose store write succeeded is
\* answered, tables:all and every tables:available:* key that was cached are
\* gone from the cache.
C9_TableWriteInvalidates ==
    [][\A p \in Procs :
         (Steps(p) /\ proc'[p].pc = "done" /\ proc'[p].op = "table"
                   /\ proc'[p].writeOk)
            => /\ AllTablesKey \notin cache'
               /\ \A k \in cache :
                     (k[1] = "tables" /\ k[2] = "available") => k \notin cache'
      ]_vars

\* C10: a step of a reservation, table or user write handler that issues a
\* cache invalidation, or removes a key, is taken only after that request's
\* store write returned success, and writes nothing to the store itself.
C10_InvalidateOnlyAfterWrite ==
    [][\A p \in Procs :
         (Steps(p) /\ (proc'[p].issued \ proc[p].issued # {} \/ cache' # cache))
            => /\ proc[p].writeOk
               /\ ~proc[p].fault
               /\ <<reservations, tables, users>>' = <<reservations, tables, users>>
      ]_vars

\* a table availability request has been answered after its write
\* succeeded and its invalidation emptied the cached table lists
C10_Witness ==
    \E p \in Procs :
       /\ proc[p].pc = "done" /\ proc[p].op = "table" /\ proc[p].writeOk
       /\ proc[p].issued # {}
       /\ \E t \in tables : ~t.is_available

ReadOps == {"get", "list", "userlist"}

\* C11: a read of a reservation by id, or through its owner's list, that is
\* answered 200 carries exactly the rows the store holds at that moment,
\* whatever keys the cache holds and whatever was written before.
C11_ReadReturnsStore ==
    [][\A p \in Procs :
         LET n == proc'[p]
         IN (Steps(p) /\ n.op \in ReadOps /\ n.code = 200)
               => /\ n.op = "get" =>
                        (n.body = {r \in reservations : r.id = n.res.id} /\ n.body # {})
                  /\ n.op = "userlist" =>
                        n.body = {r \in reservations : r.user_id = n.usr.id}
                  /\ n.op = "list" => n.body \subseteq reservations
      ]_vars

\* a reservation that was renamed and cancelled has been read by id after
\* its invalidation, and the answer carries the new name and status
C11_Witness ==
    \E p \in Procs :
       /\ proc[p].op = "get" /\ proc[p].pc = "done" /\ proc[p].code = 200
       /\ ReservationKey(proc[p].res.id) \notin cache
       /\ \E r \in proc[p].body :
             r.status = "cancelled" /\ r.guest_name = Bob /\ r \in reservations

\* C12: the middleware gives a request carrying a cached token the same
\* answer when the blacklist lookup, or the token lookup, fails as when that
\* lookup finds nothing, and a failing cache call of logout leaves the
\* request on its way to the 200 answer.
C12_CacheFailureIsMiss ==
    [][/\ \A token \in Tokens :
            RedisExists(tokenCache, TokenKey(token)) =>
               /\ userMiddleware(tokenCache, token, TRUE, FALSE, FALSE)
                    = userMiddleware(RedisDel(tokenCache, TokenBlacklistKey(token)),
                                     token, FALSE, FALSE, FALSE)
               /\ userMiddleware(tokenCache, token, FALSE, TRUE, FALSE)
                    = userMiddleware(RedisDel(tokenCache, TokenKey(token)),
                                     token, FALSE, FALSE, FALSE)
       /\ \A p \in Procs :
            /\ (proc[p].pc = "logout_del" /\ Steps(p)) => proc'[p].pc = "logout_bl"
            /\ (proc[p].pc = "logout_bl" /\ Steps(p))
                  => (proc'[p].pc = "done" /\ proc'[p].code = 200)
      ]_vars

Absent(id) == ~(\E r \in reservations : r.id = id)

\* C13: a get, update, status change or delete of a reservation id that has
\* no row, and the month detail of a month that has no reservations, is
\* answered 404 when the store itself does not fail.
C13_AbsentIsNotFound ==
    [][\A p \in Procs, u \in Users :
         /\ \A id \in ReservationIds :
               Absent(id) =>
                  /\ GetReservation(p, u, id, FALSE) => proc'[p].code = 404
                  /\ DeleteReservationLoad(p, u, id, FALSE) => proc'[p].code = 404
                  /\ \A status \in validStatuses :
                        UpdateStatusLoad(p, u, id, status, FALSE) => proc'[p].code = 404
                  /\ \A req \in ReadUpdateRequests :
                        UpdateReservationLoad(p, u, id, req, FALSE)
                           => proc'[p].code = 404
         /\ \A month \in ReadMonths :
               (month[2] \in 1..12 /\ MonthRows(reservations, month) = {}
                   /\ users[u].role = adminRole
                   /\ GetMonthlyReport(p, u, month, FALSE))
                 => proc'[p].code = 404
      ]_vars

\* C14: a create request whose availability check fails in the store is
\* answered 500 without details, stores nothing and issues no invalidation.
C14_CheckFailureIsInternalError ==
    [][\A p \in Procs :
         (/\ Steps(p) /\ proc[p].pc = "idle" /\ proc'[p].op = "create"
          /\ \E u \in Users, req \in CreateRequests :
                /\ CreateValidationErrors(req) = {}
                /\ CreateReservationCheck(p, u, req, TRUE))
            => /\ proc'[p].pc = "done" /\ proc'[p].code = 500
               /\ proc'[p].details = {}
               /\ proc'[p].issued = {} /\ ~proc'[p].writeOk
               /\ reservations' = reservations /\ cache' = cache
      ]_vars

\* a create request for a slot that a pending reservation holds has been
\* answered 500 because its availability check failed
C14_Witness ==
    \E p \in Procs :
       /\ proc[p].op = "create" /\ proc[p].pc = "done" /\ proc[p].res # NoRes
       /\ proc[p].code = 500 /\ proc[p].fault
       /\ \E r \in reservations : Active(r) /\ SameSlot(r, proc[p].res)

\* C15: once a logout of a token has been answered 200, the middleware lets
\* no request carrying that token through.
C15_NoAuthAfterLogout ==
    [][\A p \in Procs :
         (Steps(p) /\ proc[p].pc = "idle" /\ proc'[p].op \in {"me", "logout"}
                   /\ proc'[p].token \in loggedOut)
            => proc'[p].code \in {401, 500}
      ]_vars

\* C16: the middleware lets no request through whose token's own expiry
\* time has passed.
C16_NoAuthAfterExpiry ==
    [][\A p \in Procs :
         (Steps(p) /\ proc[p].pc = "idle" /\ proc'[p].op \in {"me", "logout"}
                   /\ proc'[p].token # NoToken /\ Expired(proc'[p].token))
            => proc'[p].code \in {401, 500}
      ]_vars

\* C17: a step of a table availability request made by a user without the
\* admin role leaves every table as it was.
C17_OnlyAdminChangesAvailability ==
    [][\A p \in Procs :
         (Steps(p) /\ proc[p].op = "table" /\ users[proc[p].user].role # adminRole)
            => tables' = tables
      ]_vars

\* the store holding only the reservations of user u
OwnOnly(u) == {r \in reservations : r.user_id = u}

\* C18: what the three reservation read endpoints answer to a non-admin user
\* holds only that user's reservations and is the same as in the store that
\* holds that user's reservations and no others.
C18_ReadsDependOnOwnOnly ==
    \A u \in Users :
       users[u].role # adminRole =>
          /\ \A query \in ReadQueries :
                LET resp == GetReservationsResponse(reservations, u, query, FALSE)
                IN /\ resp.body \subseteq OwnOnly(u)
                   /\ resp = GetReservationsResponse(OwnOnly(u), u, query, FALSE)
          /\ \A userID \in Users :
                LET resp == GetUserReservationsResponse(reservations, u, userID, FALSE)
                IN /\ resp.body \subseteq OwnOnly(u)
                   /\ resp = GetUserReservationsResponse(OwnOnly(u), u, userID, FALSE)
          /\ \A id \in ReservationIds :
                LET resp == GetReservationResponse(reservations, u, id, FALSE)
                IN /\ resp.body \subseteq OwnOnly(u)
                   /\ resp = GetReservationResponse(OwnOnly(u), u, id, FALSE)

\* C19: GetAvailable with a date and no time returns exactly the tables that
\* are flagged available, seat the guests when a number is given, and have no
\* pending or confirmed reservation at any time of that date.
C19_DateOnlyAvailability ==
    [][\A p \in Procs :
         (/\ Steps(p) /\ proc'[p].op = "available" /\ proc'[p].code = 200
          /\ proc'[p].filters.date # Nil /\ proc'[p].filters.time = Nil)
            => LET f == proc'[p].filters
               IN proc'[p].body =
                    {t \in tables :
                       /\ t.is_available
                       /\ \A g \in f.guests : t.capacity >= g
                       /\ \A r \in reservations :
                             (Active(r) /\ r.table_number = t.number)
                                => r.date # DateValue(Val(f.date))}
      ]_vars

\* a date-only query answered with one table while the other has a pending
\* reservation that day at one time and a cancelled one at another
C19_Witness ==
    \E p \in Procs :
       /\ proc[p].op = "available" /\ proc[p].pc = "done" /\ proc[p].code = 200
       /\ proc[p].filters = [date |-> {D1}, time |-> Nil, guests |-> Nil]
       /\ \E t \in tables : proc[p].body = {t} /\ t.number = T2
       /\ \A t \in tables : t.is_available
       /\ \E r1, r2 \in reservations :
             /\ r1.table_number = T1 /\ r1.date = DateValue(D1) /\ Active(r1)
             /\ r2.table_number = T2 /\ r2.date = DateValue(D1) /\ ~Active(r2)

\* C20: the month detail counts exactly the reservations dated in that
\* calendar month, the last day of the month included and the first day of
\* the next month excluded.
C20_MonthDetailCountsMonth ==
    [][\A p \in Procs :
         (Steps(p) /\ proc'[p].op = "report" /\ proc'[p].code = 200)
            => \A stats \in proc'[p].body :
                 LET counted == {r \in reservations :
                                   MonthOf(r.date) = stats.month[1] * 12
                                                       + (stats.month[2] - 1)}
                     lastDay == DateValue(<<stats.month[1], stats.month[2],
                                            DaysIn(stats.month[1], stats.month[2])>>)
                 IN /\ stats.total_reservations = Cardinality(counted)
                    /\ \A r \in reservations :
                          /\ r.date = lastDay => r \in counted
                          /\ r.date > lastDay => r \notin counted
      ]_vars

\* the detail of February 2025 counts one reservation while the store holds
\* one dated 2025-02-28 and one dated 2025-03-01
C20_Witness ==
    \E p \in Procs :
       /\ proc[p].op = "report" /\ proc[p].pc = "done" /\ proc[p].code = 200
       /\ \E stats \in proc[p].body :
             stats.month = <<2025, 2>> /\ stats.total_reservations = 1
       /\ \E r1, r2 \in reservations :
             /\ r1.date = DateValue(<<2025, 2, 28>>)
             /\ r2.date = DateValue(<<2025, 3, 1>>)

\* the completed reservations the store holds for calendar month m
CompletedIn(m) ==
    {r \in reservations : /\ MonthOf(r.date) = m[1] * 12 + (m[2] - 1)
                          /\ r.status = "completed"}

\* C21: the popular-tables list of a month detail has at most 10 entries of
\* different tables, each with the number of that table's completed
\* reservations of the month, no count followed by a greater one, and a table
\* with completed reservations is left out only of a full list and only with
\* a count no greater than the listed ones; three completed reservations on
\* T1 and one on T2 give T1 with 3 and then T2 with 1.
C21_PopularTables ==
    [][\A p \in Procs :
         (Steps(p) /\ proc'[p].op = "report" /\ proc'[p].code = 200)
            => \A stats \in proc'[p].body :
                 LET pt == stats.popular_tables
                     done == CompletedIn(stats.month)
                     count(t) == Cardinality({r \in done : r.table_number = t})
                     listed == {pt[i].table_number : i \in 1..Len(pt)}
                 IN /\ Len(pt) <= 10
                    /\ \A i \in 1..Len(pt) :
                          /\ pt[i].count = count(pt[i].table_number)
                          /\ pt[i].count > 0
                    /\ \A i, j \in 1..Len(pt) :
                          i < j => /\ pt[i].count >= pt[j].count
                                   /\ pt[i].table_number # pt[j].table_number
                    /\ \A r \in done :
                          r.table_number \notin listed
                             => /\ Len(pt) = 10
                                /\ \A i \in 1..Len(pt) :
                                      pt[i].count >= count(r.table_number)
                    /\ ({r.table_number : r \in done} = {T1, T2}
                           /\ count(T1) = 3 /\ count(T2) = 1)
                         => pt = <<[table_number |-> T1, count |-> 3],
                                   [table_number |-> T2, count |-> 1]>>
      ]_vars

\* a December detail listing T1 with 3 and T2 with 1 while T1 and T2 also
\* have a pending, a confirmed and a cancelled reservation that month
C21_Witness ==
    \E p \in Procs :
       /\ proc[p].op = "report" /\ proc[p].pc = "done" /\ proc[p].code = 200
       /\ \E stats \in proc[p].body :
             /\ stats.month = <<2025, 12>>
             /\ stats.popular_tables = <<[table_number |-> T1, count |-> 3],
                                          [table_number |-> T2, count |-> 1]>>
       /\ \A status \in {"pending", "confirmed", "cancelled"} :
             \E r \in reservations :
                r.status = status /\ MonthOf(r.date) = 2025 * 12 + 11

\* a December detail listing 10 tables while 11 have completed reservations
C21_WitnessTruncated ==
    \E p \in Procs :
       /\ proc[p].op = "report" /\ proc[p].pc = "done" /\ proc[p].code = 200
       /\ \E stats \in proc[p].body : Len(stats.popular_tables) = 10
       /\ Cardinality({r.table_number : r \in CompletedIn(<<2025, 12>>)}) = 11

\* the reservations the store holds for calendar month m
DatedIn(m) == {r \in reservations : MonthOf(r.date) = m[1] * 12 + (m[2] - 1)}

\* the entries of an overview or a detail response
StatsEntries(q) ==
    IF q.op = "reports"
    THEN UNION {{b.list[i] : i \in 1..Len(b.list)} : b \in q.body}
    ELSE q.body

\* C22: every revenue figure of the monthly overview and of the month detail
\* is 50 times the number of the month's completed reservations.
C22_RevenueIsFiftyPerCompleted ==
    [][\A p \in Procs :
         (Steps(p) /\ proc'[p].op \in {"reports", "report"} /\ proc'[p].code = 200)
            => \A e \in StatsEntries(proc'[p]) :
                 e.revenue = 50 * Cardinality(CompletedIn(e.month))
      ]_vars

\* an overview giving December 2025 a revenue of 150 for three completed
\* reservations of different guest numbers and two tables, the month also
\* holding a pending, a confirmed and a cancelled reservation
C22_Witness ==
    \E p \in Procs :
       /\ proc[p].op = "reports" /\ proc[p].pc = "done" /\ proc[p].code = 200
       /\ \E e \in StatsEntries(proc[p]) :
             /\ e.month = <<2025, 12>> /\ e.revenue = 150
             /\ e.total_reservations = 6
       /\ Cardinality({r.guests : r \in CompletedIn(<<2025, 12>>)}) > 1
       /\ Cardinality({r.table_number : r \in CompletedIn(<<2025, 12>>)}) > 1

\* C23: the monthly overview has one entry for each calendar month in which
\* a reservation is dated and no other entry, a later month before an
\* earlier one.
C23_OverviewMonths ==
    [][\A p \in Procs :
         (Steps(p) /\ proc'[p].op = "reports" /\ proc'[p].code = 200)
            => \A b \in proc'[p].body :
                 LET n == Len(b.list)
                     key(i) == b.list[i].month[1] * 12 + (b.list[i].month[2] - 1)
                 IN /\ {key(i) : i \in 1..n} = {MonthOf(r.date) : r \in reservations}
                    /\ \A i, j \in 1..n : i < j => key(i) > key(j)
      ]_vars

\* an overview listing January 2026, December 2025 and November 2025, the
\* last for a single pending reservation
C23_Witness ==
    \E p \in Procs :
       /\ proc[p].op = "reports" /\ proc[p].pc = "done" /\ proc[p].code = 200
       /\ \E b \in proc[p].body :
             /\ Len(b.list) = 3
             /\ b.list[1].month = <<2026, 1>> /\ b.list[2].month = <<2025, 12>>
             /\ b.list[3].month = <<2025, 11>>
       /\ \A r \in DatedIn(<<2025, 11>>) : r.status = "pending"

\* the months written YYYY-MM that are months of the calendar
WellFormedMonths == {<<y, m>> : y \in 2025..2026, m \in 1..12}

\* C30: for every month of an overview the month detail succeeds with the
\* same month, counts and revenue as the overview entry, and for every other
\* calendar month it returns the error that the statistics are not found.
C30_DetailAgreesWithOverview ==
    [][\A p \in Procs :
         (Steps(p) /\ proc'[p].op = "reports" /\ proc'[p].code = 200)
            => LET entries == StatsEntries(proc'[p])
               IN /\ \A e \in entries :
                        LET got == GetDetailedMonthlyStats(reservations, e.month, FALSE)
                        IN ~got.err /\ got.stats = e
                  /\ \A month \in WellFormedMonths \ {e.month : e \in entries} :
                        LET got == GetDetailedMonthlyStats(reservations, month, FALSE)
                        IN got.err /\ got.msg = "statistics for this month not found"
      ]_vars

\* an overview of two months answered from a store without reservations in
\* the month between them
C30_Witness ==
    \E p \in Procs :
       /\ proc[p].op = "reports" /\ proc[p].pc = "done" /\ proc[p].code = 200
       /\ {e.month : e \in StatsEntries(proc[p])} = {<<2026, 1>>, <<2025, 11>>}
       /\ DatedIn(<<2025, 12>>) = {}

InvalMethods ==
    {"DeleteReservation", "InvalidateUserReservations", "DeleteUser",
     "InvalidateMonthlyStats", "InvalidateTableCache", "InvalidateAllStats",
     "DeleteToken"}

\* C24: a call of an invalidation method while Redis answers returns no
\* error, leaves the cache as it was when it removed no key there was none to
\* remove, and leaves a cache that a second call of the method does not
\* change and does not fail on.
C24_InvalidationIdempotent ==
    [][\A p \in Procs :
         (/\ Steps(p) /\ proc[p].pc = "idle" /\ proc'[p].op \in InvalMethods
          /\ ~proc'[p].fault)
            => LET op == proc'[p].op
                   keys == {ReservationKey(id) : id \in ReservationIds}
                             \cup {UserReservationsKey(u) : u \in Users}
                             \cup {UserKey(u) : u \in Users}
                             \cup {MonthlyStatsKey(month) : month \in InvalMonths}
                   again ==
                     IF op = "InvalidateTableCache" THEN {SweepTables(cache', FALSE)}
                     ELSE IF op = "InvalidateAllStats" THEN {SweepStats(cache', FALSE)}
                     ELSE IF op = "DeleteToken"
                     THEN {DeleteToken(tokenCache', proc'[p].token, FALSE)}
                     ELSE {Del(cache', {key}, FALSE) : key \in keys \ cache'}
               IN /\ proc'[p].code = 0
                  /\ cache' \subseteq cache
                  /\ \A e \in tokenCache' : e \in tokenCache
                  /\ proc'[p].writeOk
                       <=> (\E key \in cache : key \notin cache')
                             \/ (\E e \in tokenCache : e \notin tokenCache')
                  /\ \A got \in again :
                        /\ ~got.err
                        /\ got.cache = IF op = "DeleteToken" THEN tokenCache' ELSE cache'
                  /\ op \in {"DeleteReservation", "InvalidateUserReservations",
                              "DeleteUser", "InvalidateMonthlyStats"}
                        => Cardinality(cache \ cache') <= 1
                  /\ op = "InvalidateTableCache"
                        => cache' = {key \in cache : key[1] \notin {"tables", "table"}}
                  /\ op = "InvalidateAllStats"
                        => cache' = {key \in cache : key[1] # "reports"}
      ]_vars

\* a sweep of the table keys has returned without error and without a change
\* to a cache that holds other keys but no table key
C24_Witness ==
    \E p \in Procs :
       /\ proc[p].op = "InvalidateTableCache" /\ proc[p].pc = "done"
       /\ proc[p].code = 0 /\ ~proc[p].writeOk
       /\ cache # {} /\ Scan(cache, "tables") \cup Scan(cache, "table") = {}

\* a delete of one reservation key has returned without error and without a
\* change to a cache that holds other keys
C24_WitnessSingleKey ==
    \E p \in Procs :
       /\ proc[p].op = "DeleteReservation" /\ proc[p].pc = "done"
       /\ proc[p].code = 0 /\ ~proc[p].writeOk /\ ~proc[p].fault
       /\ UserReservationsKey("u1") \in cache

\* C25: a registration with a name, a password of at least 6 characters and
\* a well-formed email that no stored user has is answered 201 when the
\* store does not fail.
C25_RegisterNewEmail ==
    [][\A p \in Procs :
         (/\ Steps(p) /\ proc[p].pc = "idle" /\ proc'[p].op = "register"
          /\ \E req \in RegisterRequests :
                /\ RegisterValidationErrors(req) = {}
                /\ \A u \in Users : users[u].email # TrimSpace(req.email)
                /\ Register(p, req, FALSE))
            => proc'[p].code = 201
      ]_vars

\* request p has written its update of reservation id
Written(p, id) ==
    /\ proc[p].op = "update" /\ proc[p].writeOk /\ proc[p].res.id = id
    /\ proc[p].pc \in {"inval_res", "inval_user", "done"}

\* C26: when a request that sets the guest name and a concurrent request
\* that sets the table number or the date of the same reservation have both
\* written, the stored reservation has the name of the one and the table
\* number and date of the other.
C26_BothChangesKept ==
    \A id \in ReservationIds :
       (Written("p1", id) /\ Written("p2", id))
          => \E r \in reservations :
                /\ r.id = id
                /\ r.guest_name = proc["p1"].res.guest_name
                /\ r.table_number = proc["p2"].res.table_number
                /\ r.date = proc["p2"].res.date

\* the fields a PATCH request can set, of a reservation
Patched(r) ==
    [guest_name |-> r.guest_name, date |-> r.date, time |-> r.time,
     table_number |-> r.table_number]

\* C29: the reservation a successful PATCH returns has the guest name, date,
\* time and table number that the store holds right after the update.
C29_ResponseIsStoredRow ==
    [][\A p \in Procs :
         (Steps(p) /\ proc[p].pc = "update" /\ proc'[p].writeOk)
            => \E r \in reservations' :
                  r.id = proc'[p].res.id /\ Patched(r) = Patched(proc'[p].res)
      ]_vars

\* C27: a create request stores a reservation only for a table whose
\* availability flag is true.
C27_UnavailableTableNotBooked ==
    [][\A p \in Procs :
         (Steps(p) /\ proc[p].pc = "insert" /\ proc'[p].writeOk)
            => \E t \in tables :
                  t.number = proc[p].res.table_number /\ t.is_available
      ]_vars

\* C28: GetAvailable with a date and a time returns exactly the tables that
\* are flagged available, seat the guests when a number is given, and for
\* which CheckTableAvailability returns true for that date and time.
C28_AvailableIffCheck ==
    [][\A p \in Procs :
         (/\ Steps(p) /\ proc'[p].op = "available" /\ proc'[p].code = 200
          /\ proc'[p].filters.date # Nil /\ proc'[p].filters.time # Nil)
            => LET f == proc'[p].filters
                   check(t) == CheckTableAvailability(reservations, t.number,
                                                      Val(f.date), Val(f.time), FALSE)
               IN \A t \in tables :
                     t \in proc'[p].body
                        <=> /\ t.is_available
                            /\ \A g \in f.guests : t.capacity >= g
                            /\ ~check(t).err /\ check(t).available
      ]_vars

\* a query for 25 December at 19:00 answered with both tables while T1 has a
\* pending or confirmed reservation that day at 9:00 and T2 a cancelled or
\* completed one at 19:00
C28_Witness ==
    \E p \in Procs :
       /\ proc[p].op = "available" /\ proc[p].pc = "done" /\ proc[p].code = 200
       /\ proc[p].filters = [date |-> {D1}, time |-> {Time19}, guests |-> Nil]
       /\ proc[p].body = tables
       /\ \E r1, r2 \in reservations :
             /\ r1.table_number = T1 /\ r1.date = DateValue(D1) /\ Active(r1)
             /\ r1.time = TimeValue(Time9)
             /\ r2.table_number = T2 /\ r2.date = DateValue(D1) /\ ~Active(r2)
             /\ r2.time = TimeValue(Time19)

====
